---- MODULE Spec2Model ----
(***************************************************************************)
(* Calibration wizard of Spoolman: the wizard orchestrator                 *)
(* (CalibrationWizard), the session list that starts / resumes it          *)
(* (CalibrationSection), the standalone step drawer (StepResultDrawer) and *)
(* the session edit form (SessionFormModal), together with the REST        *)
(* backend that stores one calibration session and its step results.       *)
(*                                                                         *)
(* JavaScript values are encoded uniformly:                                *)
(*   - an optional mapping (Record<string, unknown> | null | undefined) is *)
(*     a record [tag, kv] with tag in {"map", "null", "undef"} and kv the  *)
(*     set of <<key, value>> pairs of the mapping;                         *)
(*   - an optional string is the string itself, "null" or "undef".         *)
(* Requests made through the refine / react-query mutation hooks are kept  *)
(* in `inflight` until the backend answers; `cb` says whether the callbacks *)
(* given to mutate() are still attached: react-query drops them when the   *)
(* same hook mutates again ("superseded") or when the component that owns  *)
(* the hook unmounts ("unmounted").                                        *)
(***************************************************************************)
EXTENDS Naturals, Integers, Sequences, FiniteSets, TLC

VARIABLES
    status,         \* backend: status of the calibration session
    steps,          \* backend: the session's persisted Step Results, in creation order
    view,           \* CalibrationSection: the session as last returned by useList
    refetching,     \* CalibrationSection: a list request (refetch) is in flight
    wizardSession,  \* CalibrationSection: useState wizardSession (session prop of the wizard)
    currentIdx,     \* CalibrationWizard: currentIdx / currentIdxRef
    doneTypes,      \* CalibrationWizard: doneTypes.current
    savedValues,    \* CalibrationWizard: savedValues.current
    form,           \* CalibrationWizard: the antd form store
    confirmOpen,    \* CalibrationWizard: the Modal.confirm of skip-to-finish is showing
    stepDrawer,     \* CalibrationSection: useState stepDrawer
    sessionModal,   \* CalibrationSection: sessionModal.open
    inflight,       \* requests sent to the backend and not yet answered
    signal,         \* what the last step signalled: "complete" (the wizard's onComplete),
                    \* "error" (error notification of a failed request) or "none"
    edits,          \* number of field edits made in the wizard so far
    navs,           \* number of navigation clicks made in the wizard so far
    created,        \* number of Step Results the backend created so far
    stepContent,    \* StepContent of the wizard: the useState values of the displayed step
    sessions,      \* SpecSummary: the filament's sessions as the backend lists them
    summary,        \* SpecSummary: latestByType of the last render of RecommendedSummary
    clock,          \* SpecSummary: the backend's clock (recorded_at of the next step)
    deleteButtons,  \* history list: per row, its ConfirmDeleteButton (confirming, timerRef)
    timers,         \* the setTimeout timers that are scheduled and neither fired nor cleared
    timerCount,     \* number of timers scheduled so far (the id of the latest one)
    deleteRequests, \* the delete requests issued by deleteItem, in order
    volumetricInputs, \* volumetric_speed step: the numbers of the form's inputs, in 0.1
    volumetricResult, \* volumetric_speed step: max_volumetric_speed of the form, in 0.01
    earlier,        \* backend: the statuses of the filament's sessions created before
                    \* the session of `status`, the newest first
    earlierListed   \* CalibrationSection: those statuses as last returned by useList

\* The variables of the delete buttons of the history list.
deleteVars == <<deleteButtons, timers, timerCount, deleteRequests>>

\* The variables of the numeric auto-compute of the volumetric_speed step.
computeVars == <<volumetricInputs, volumetricResult>>

\* The variables of the recommended-settings summary over several sessions
\* and of the history list. The wizard specifications follow one session and
\* leave them alone.
pageVars == <<sessions, summary, clock, deleteVars, computeVars>>

\* The filament's sessions older than the one the wizard specifications follow.
startVars == <<earlier, earlierListed>>

\* What the wizard's own operations leave alone.
summaryVars == <<pageVars, startVars>>

\* The variables of the wizard specifications.
wizardVars == <<status, steps, view, refetching, wizardSession, currentIdx, doneTypes,
                savedValues, form, confirmOpen, stepDrawer, sessionModal, inflight,
                signal, edits, navs, created, stepContent>>

vars == <<wizardVars, summaryVars>>

(***************************************************************************)
(* Bounds                                                                  *)
(***************************************************************************)
MaxSteps == 2        \* Step Results created, or being created, in one behaviour
MaxInflight == 2     \* requests simultaneously in flight
MaxEdits == 1        \* field edits made in the wizard in one behaviour
MaxNavs == 1         \* navigation clicks (sidebar, Back, Skip) made in one behaviour
MaxSessions == 2     \* SpecSummary: sessions of the filament
MaxSummarySteps == 3 \* SpecSummary: Step Results of the filament, over all its sessions
MaxArtifacts == 3    \* SpecStep: speeds in the artifact list of the vfa step
MaxTimers == 3       \* SpecDelete: timers scheduled in one behaviour
MaxDeletes == 2      \* SpecDelete: delete requests issued in one behaviour
MaxTenths == 4       \* SpecVolumetric: largest number entered in an input, in 0.1
MaxSeedSteps == 2    \* SpecSeed: persisted steps of the session the wizard is opened on

(***************************************************************************)
(* model.ts / wizardCopy.ts                                                *)
(***************************************************************************)
CalibrationStatus == {"planned", "in_progress", "complete", "archived"}

WIZARD_STEP_ORDER ==
    << "temperature", "volumetric_speed", "pressure_advance", "flow_rate",
       "retraction", "tolerance", "cornering", "input_shaping", "vfa" >>

CalibrationStepType == {WIZARD_STEP_ORDER[i] : i \in 1..Len(WIZARD_STEP_ORDER)}

\* Indices are the 0-based indices of the source. WIZARD_STEP_ORDER[idx] is
\* undefined for an idx outside of them.
LastIdx == Len(WIZARD_STEP_ORDER) - 1
Indices == 0..LastIdx
StepAt(idx) == IF idx \in Indices THEN WIZARD_STEP_ORDER[idx + 1] ELSE "undefined"

(***************************************************************************)
(* Optional mappings                                                       *)
(***************************************************************************)
Undef == [tag |-> "undef", kv |-> {}]
Null == [tag |-> "null", kv |-> {}]
Map(kv) == [tag |-> "map", kv |-> kv]
EmptyMap == Map({})
SKIPPED == Map({<<"_skipped", "true">>})

\* a ?? b
Coalesce(a, b) == IF a.tag = "map" THEN a ELSE b
\* s ?? "null" for optional strings
CoalesceStr(s) == IF s = "undef" THEN "null" ELSE s

KeysOf(m) == {p[1] : p \in m.kv}
\* { ...m, key: value }
Put(m, key, value) == Map({p \in m.kv : p[1] # key} \cup {<<key, value>>})
\* m && Object.keys(m).length > 0
NonEmpty(m) == m.tag = "map" /\ m.kv # {}
\* step.outputs?._skipped === true
IsSkipped(step) == <<"_skipped", "true">> \in step.outputs.kv

(***************************************************************************)
(* stepConfig.ts: per step type, one input field (for a type with an        *)
(* autoCompute formula, one the formula reads), the first output field and *)
(* whether the type has an autoCompute formula.                            *)
(***************************************************************************)
InKey(t) ==
    CASE t = "temperature" -> "start_temp"
      [] t = "volumetric_speed" -> "start_speed"
      [] t = "pressure_advance" -> "pa_step_a"
      [] t = "flow_rate" -> "none"
      [] t = "retraction" -> "start_retract"
      [] t = "tolerance" -> "test_size"
      [] t = "cornering" -> "firmware_type"
      [] t = "input_shaping" -> "shaper_type"
      [] OTHER -> "start_speed"

OutKey(t) ==
    CASE t = "temperature" -> "temperature"
      [] t = "volumetric_speed" -> "max_volumetric_speed"
      [] t = "pressure_advance" -> "pressure_advance"
      [] t = "flow_rate" -> "flow_ratio"
      [] t = "retraction" -> "retraction_length"
      [] t = "tolerance" -> "tolerance_offset"
      [] t = "cornering" -> "cornering_value"
      [] t = "input_shaping" -> "shaper_type_x"
      [] OTHER -> "min_avoidance_speed"

HasAutoCompute(t) ==
    t \in {"volumetric_speed", "pressure_advance", "retraction", "tolerance"}

\* min and max of the output field flow_ratio, in units of 0.00001.
FlowRatioMin == 50000
FlowRatioMax == 150000

\* The values of flow_ratio, as the form holds them, that lie within the
\* bounds of the field.
FlowRatiosWithinBounds == {ToString(n) : n \in FlowRatioMin..FlowRatioMax}

\* The inputs the autoCompute formula of type t reads.
RequiredInputs(t) ==
    CASE t = "volumetric_speed" -> {"start_speed", "step_size", "measured_height"}
      [] t = "pressure_advance" -> {"pa_step_a", "measured_height_b"}
      [] t = "retraction" -> {"start_retract", "measured_height", "factor"}
      [] t = "tolerance" -> {"test_size", "measured_size"}
      [] OTHER -> {}

\* The input fields of type t that the model edits: the ones a formula reads,
\* for pressure_advance also the extruder type no formula reads, and InKey(t)
\* for a type without formula.
InputKeys(t) ==
    CASE t = "pressure_advance" -> RequiredInputs(t) \cup {"extruder_type"}
      [] HasAutoCompute(t) -> RequiredInputs(t)
      [] InKey(t) = "none" -> {}
      [] OTHER -> {InKey(t)}

(***************************************************************************)
(* Records                                                                 *)
(***************************************************************************)
\* The antd form store of the wizard: nothing set.
EmptyForm == [inputs |-> Undef, result |-> Undef, notes |-> "undef", confidence |-> "undef"]

\* An entry of savedValues.current: absent, or the cached field values.
NoEntry == [cached |-> FALSE, v |-> EmptyForm]
Entry(f) == [cached |-> TRUE, v |-> f]

\* Placeholder payload of requests that carry no step.
NoStep ==
    [step_type |-> "none", inputs |-> Null, outputs |-> Null,
     selected_values |-> Null, notes |-> "null", confidence |-> "null"]

ClosedWizard == [open |-> FALSE, steps |-> <<>>]
ClosedDrawer == [open |-> FALSE, id |-> 0, step |-> NoStep]

RemoveAt(q, i) == [j \in 1..(Len(q) - 1) |-> IF j < i THEN q[j] ELSE q[j + 1]]

(***************************************************************************)
(* react-query mutation hooks                                              *)
(***************************************************************************)
\* mutation.isPending of a hook: its latest mutate() call is not answered yet.
IsPending(hook) ==
    \E i \in 1..Len(inflight) : inflight[i].hook = hook /\ inflight[i].cb = "attached"

\* mutate() on a hook detaches the callbacks of the hook's earlier calls.
Supersede(q, hook) ==
    [j \in 1..Len(q) |->
        IF q[j].hook = hook /\ q[j].cb = "attached"
        THEN [q[j] EXCEPT !.cb = "superseded"] ELSE q[j]]

\* Unmounting a component detaches the callbacks of all its hooks.
Unmount(q, hooks) ==
    [j \in 1..Len(q) |->
        IF q[j].hook \in hooks THEN [q[j] EXCEPT !.cb = "unmounted"] ELSE q[j]]

Mutate(q, r) == Append(Supersede(q, r.hook), r)

WizardHooks == {"wizard.createStep", "wizard.updateSession"}
DrawerHooks == {"drawer.createStep", "drawer.updateStep"}

CreatesInFlight(q) == Cardinality({j \in 1..Len(q) : q[j].kind = "create_step"})

(***************************************************************************)
(* CalibrationWizard: derived values of a render                           *)
(***************************************************************************)
isLoading == IsPending("wizard.createStep") \/ IsPending("wizard.updateSession")
currentStepType == StepAt(currentIdx)
isFirst == currentIdx = 0
isLast == currentIdx = LastIdx
\* The wizard's own controls can be used: it is open and not covered by the confirm dialog.
WizardActive == wizardSession.open /\ ~confirmOpen
\* The page behind the modals can be used.
PageActive == ~wizardSession.open /\ ~stepDrawer.open /\ ~sessionModal

(***************************************************************************)
(* CalibrationWizard: init effect on open                                  *)
(***************************************************************************)
StepTypesOf(ss) == {ss[i].step_type : i \in 1..Len(ss)}

\* The cache entry seeded from one persisted step.
SeedOf(step) ==
    Entry([inputs |-> Coalesce(step.inputs, EmptyMap),
           result |-> Coalesce(step.selected_values, Coalesce(step.outputs, EmptyMap)),
           notes |-> step.notes,
           confidence |-> step.confidence])

\* Variant of SeedSavedValues: the first step of a type is the one kept.
SeedSavedValues_firstWins(ss) ==
    [t \in CalibrationStepType |->
        LET hits == {i \in 1..Len(ss) : ss[i].step_type = t}
        IN  IF hits = {} THEN NoEntry
            ELSE SeedOf(ss[CHOOSE i \in hits : \A j \in hits : i <= j])]

\* for (const step of session.steps) savedValues.current[step.step_type] = ...
\* (a later step of the same type overwrites an earlier one).
SeedSavedValues(ss) ==
    [t \in CalibrationStepType |->
        LET hits == {i \in 1..Len(ss) : ss[i].step_type = t}
        IN  IF hits = {} THEN NoEntry
            ELSE SeedOf(ss[CHOOSE i \in hits : \A j \in hits : j <= i])]

\* Variant of FirstPending: resumes after the furthest step type already saved.
FirstPending_afterLastDone(done) ==
    LET doneIdx == {i \in Indices : StepAt(i) \in done}
        furthest == IF doneIdx = {} THEN -1 ELSE CHOOSE i \in doneIdx : \A j \in doneIdx : j <= i
    IN  IF furthest = LastIdx THEN -1 ELSE furthest + 1

\* WIZARD_STEP_ORDER.findIndex((st) => !doneTypes.current.has(st))
FirstPending(done) ==
    LET pending == {i \in Indices : StepAt(i) \notin done}
    IN  IF pending = {} THEN -1 ELSE CHOOSE i \in pending : \A j \in pending : i <= j

\* Variant of StartIdx: stays on the last step when every type is done.
StartIdx_lastWhenAllDone(done) ==
    IF FirstPending(done) >= 0 THEN FirstPending(done) ELSE LastIdx

StartIdx(done) == IF FirstPending(done) >= 0 THEN FirstPending(done) ELSE 0

(***************************************************************************)
(* The form store                                                          *)
(***************************************************************************)
\* form.setFieldsValue(values): the fields present in `values` are written.
SetFieldsValue(f, values) ==
    [inputs |-> IF values.inputs.tag # "undef" THEN values.inputs ELSE f.inputs,
     result |-> IF values.result.tag # "undef" THEN values.result ELSE f.result,
     notes |-> IF values.notes # "undef" THEN values.notes ELSE f.notes,
     confidence |-> IF values.confidence # "undef" THEN values.confidence ELSE f.confidence]

\* Every input the autoCompute formula of type t reads is a number: the key is
\* present and its value is not null (!== null && !isNaN(...); a missing key
\* reads undefined, which isNaN rejects; the number inputs of the form hold
\* numbers or null, never NaN).
InputsComplete(t, f) ==
    \A k \in RequiredInputs(t) : \E p \in f.inputs.kv : p[1] = k /\ p[2] # "null"

\* Variant of AutoComputeEffect: with incomplete inputs the output is cleared.
AutoComputeEffect_clearsWhenIncomplete(t, f, method) ==
    IF ~HasAutoCompute(t) \/ f.inputs.tag # "map" THEN f
    ELSE IF t = "pressure_advance" /\ method = "pattern" THEN f
    ELSE IF InputsComplete(t, f)
    THEN [f EXCEPT !.result = Put(Coalesce(f.result, EmptyMap), OutKey(t), "c1")]
    ELSE [f EXCEPT !.result = Put(Coalesce(f.result, EmptyMap), OutKey(t), "null")]

\* Variant of AutoComputeEffect: the formula runs whatever the method is.
AutoComputeEffect_anyMethod(t, f, method) ==
    IF ~HasAutoCompute(t) \/ f.inputs.tag # "map" THEN f
    ELSE IF InputsComplete(t, f)
    THEN [f EXCEPT !.result = Put(Coalesce(f.result, EmptyMap), OutKey(t), "c1")]
    ELSE f

\* StepContent, auto-compute effect for the watched inputs of form f and the
\* pressure-advance method of the render: nothing without a formula or without
\* inputs, nothing for pressure_advance in pattern mode; otherwise the
\* computed output is merged into result when the formula yields one. The
\* output computed from the inputs is written "c1".
AutoComputeEffect(t, f, method) ==
    IF ~HasAutoCompute(t) \/ f.inputs.tag # "map" THEN f
    ELSE IF t = "pressure_advance" /\ method = "pattern" THEN f
    ELSE IF InputsComplete(t, f)
    THEN [f EXCEPT !.result = Put(Coalesce(f.result, EmptyMap), OutKey(t), "c1")]
    ELSE f

\* Math.min(...speeds) and Math.max(...speeds) of a non-empty list.
MinOf(speeds) ==
    CHOOSE x \in {speeds[i] : i \in 1..Len(speeds)} : \A j \in 1..Len(speeds) : x <= speeds[j]
MaxOf(speeds) ==
    CHOOSE x \in {speeds[i] : i \in 1..Len(speeds)} : \A j \in 1..Len(speeds) : x >= speeds[j]

\* Variant of VfaEffect: both avoidance speeds are taken from the first element.
VfaEffect_firstElement(t, f, speeds) ==
    IF t # "vfa" THEN f
    ELSE IF Len(speeds) = 0
    THEN [f EXCEPT !.result = Put(Put(Coalesce(f.result, EmptyMap),
                                      "min_avoidance_speed", "null"),
                                  "max_avoidance_speed", "null")]
    ELSE [f EXCEPT !.result = Put(Put(Coalesce(f.result, EmptyMap),
                                      "min_avoidance_speed", ToString(speeds[1])),
                                  "max_avoidance_speed", ToString(speeds[1]))]

\* StepContent, VFA effect for the artifact-speed list of the render: the
\* smallest and the largest speed, or null for both when the list is empty,
\* are merged into result. A speed is written as its number of mm/s.
VfaEffect(t, f, speeds) ==
    IF t # "vfa" THEN f
    ELSE IF Len(speeds) = 0
    THEN [f EXCEPT !.result = Put(Put(Coalesce(f.result, EmptyMap),
                                      "min_avoidance_speed", "null"),
                                  "max_avoidance_speed", "null")]
    ELSE [f EXCEPT !.result = Put(Put(Coalesce(f.result, EmptyMap),
                                      "min_avoidance_speed", ToString(MinOf(speeds))),
                                  "max_avoidance_speed", ToString(MaxOf(speeds)))]

\* The effects of StepContent that run once the form shows step type t:
\* the auto-compute effect whenever the watched inputs were rewritten, the VFA
\* effect when the step type changed (the reset effect replaces the list by a
\* new empty one).
StepEffects(t, f, typeChanged, method) ==
    IF typeChanged
    THEN VfaEffect(t, AutoComputeEffect(t, f, method), <<>>)
    ELSE AutoComputeEffect(t, f, method)

\* The form after resetFields() and the restore of the cache entry of type t.
Restored(sv, t, typeChanged, method) ==
    IF t \notin CalibrationStepType THEN EmptyForm
    ELSE StepEffects(t, IF sv[t].cached THEN SetFieldsValue(EmptyForm, sv[t].v) ELSE EmptyForm,
                     typeChanged, method)

(***************************************************************************)
(* StepContent: the state of the displayed step                            *)
(***************************************************************************)
\* number | null: a number is <<n>>, null is <<>>. Flow ratios and the YOLO
\* modifier are counted in units of 0.00001 (the precision of their inputs),
\* the modifiers of the legacy passes in units of 0.1 percent.
NullNum == <<>>
Num(n) == <<n>>
IsNum(x) == x # NullNum
ValueOf(x) == x[1]

\* useState(1.0) of yoloFlowRatioOld and pass1FlowRatio.
DefaultFlowRatio == 100000

\* The useState initial values of StepContent.
InitialStepContent ==
    [flowCalcMethod |-> "yolo", flowCalcPhase |-> "idle",
     yoloFlowRatioOld |-> Num(DefaultFlowRatio), yoloModifier |-> NullNum,
     pass1FlowRatio |-> Num(DefaultFlowRatio), pass1Modifier |-> NullNum,
     pass2FlowRatio |-> NullNum, pass2Modifier |-> NullNum,
     artifactSpeeds |-> <<>>, newArtifactSpeed |-> NullNum,
     paMethod |-> "tower"]

\* Variant of resetFlowCalcState: the ratio of the second pass is kept.
resetFlowCalcState_keepsPass2(sc) ==
    [sc EXCEPT !.flowCalcPhase = "idle",
               !.yoloFlowRatioOld = Num(DefaultFlowRatio), !.yoloModifier = NullNum,
               !.pass1FlowRatio = Num(DefaultFlowRatio), !.pass1Modifier = NullNum,
               !.pass2Modifier = NullNum]

\* resetFlowCalcState()
resetFlowCalcState(sc) ==
    [sc EXCEPT !.flowCalcPhase = "idle",
               !.yoloFlowRatioOld = Num(DefaultFlowRatio), !.yoloModifier = NullNum,
               !.pass1FlowRatio = Num(DefaultFlowRatio), !.pass1Modifier = NullNum,
               !.pass2FlowRatio = NullNum, !.pass2Modifier = NullNum]

\* Variant of ResetOnStepType: the method of the calculator is kept.
ResetOnStepType_keepsMethod(sc) ==
    [resetFlowCalcState(sc) EXCEPT !.artifactSpeeds = <<>>, !.newArtifactSpeed = NullNum,
                                   !.paMethod = "tower"]

\* The reset effect on [stepType]: the method, the calculator, the artifact
\* speeds and the pressure-advance method go back to their initial values.
ResetOnStepType(sc) ==
    [resetFlowCalcState([sc EXCEPT !.flowCalcMethod = "yolo"])
        EXCEPT !.artifactSpeeds = <<>>, !.newArtifactSpeed = NullNum, !.paMethod = "tower"]

\* A double is counted in units finer than those of the numbers it is
\* computed from and rounded to: the value of the expression over the reals
\* plus the rounding error e of the double arithmetic. The error of the
\* expressions of the model is far below one such unit, and on which side of
\* the real value the double lies depends on the operands: e is any of
\* FloatError.
FloatError == -1 .. 1

\* 0.00001, the unit of the flow ratios, in the units of their doubles (0.00000001).
RatioUnit == 1000

\* parseFloat(x.toFixed(5)), cutting the decimals after the fifth off.
toFixed5_truncates(x) == x \div RatioUnit

\* parseFloat(x.toFixed(5)): the n for which n / 100000 is nearest to x, the
\* larger n of two; a negative x is rounded as -x and negated.
toFixed5(x) ==
    IF x < 0 THEN 0 - ((RatioUnit \div 2 - x) \div RatioUnit)
    ELSE (x + RatioUnit \div 2) \div RatioUnit

\* yoloResult: yoloFlowRatioOld + yoloModifier to 5 decimals, or null.
yoloResult(sc, e) ==
    IF IsNum(sc.yoloFlowRatioOld) /\ IsNum(sc.yoloModifier)
    THEN Num(toFixed5((ValueOf(sc.yoloFlowRatioOld) + ValueOf(sc.yoloModifier)) * RatioUnit + e))
    ELSE NullNum

\* flowRatio * (100 + modifier) / 100 to 5 decimals, or null; the modifier is
\* counted in units of 0.1 percent, so ratio * (1000 + modifier) is the real
\* value in units of 0.00000001.
PassResult(ratio, modifier, e) ==
    IF IsNum(ratio) /\ IsNum(modifier)
    THEN Num(toFixed5(ValueOf(ratio) * (1000 + ValueOf(modifier)) + e))
    ELSE NullNum

pass1Result(sc, e) == PassResult(sc.pass1FlowRatio, sc.pass1Modifier, e)
pass2Result(sc, e) == PassResult(sc.pass2FlowRatio, sc.pass2Modifier, e)

(***************************************************************************)
(* Requests                                                                *)
(***************************************************************************)
CreateStepReq(hook, origin, step, idx, last) ==
    [hook |-> hook, kind |-> "create_step", cb |-> "attached", origin |-> origin,
     step |-> step, status |-> "none", target |-> 0, idx |-> idx, last |-> last]

UpdateStepReq(hook, origin, step, target) ==
    [hook |-> hook, kind |-> "update_step", cb |-> "attached", origin |-> origin,
     step |-> step, status |-> "none", target |-> target, idx |-> 0, last |-> FALSE]

UpdateSessionReq(hook, origin, st) ==
    [hook |-> hook, kind |-> "update_session", cb |-> "attached", origin |-> origin,
     step |-> NoStep, status |-> st, target |-> 0, idx |-> 0, last |-> FALSE]

\* createSession({values: {filament_id, status}}) of CalibrationSection.
CreateSessionReq(st) ==
    [hook |-> "section.createSession", kind |-> "create_session", cb |-> "attached",
     origin |-> "start", step |-> NoStep, status |-> st, target |-> 0, idx |-> 0,
     last |-> FALSE]

\* Room for one more request / one more Step Result within the bounds.
RoomForRequest == Len(inflight) < MaxInflight
RoomForStep == RoomForRequest /\ created + CreatesInFlight(inflight) < MaxSteps

(***************************************************************************)
(* RecommendedSummary: the latest step per type that has selected_values   *)
(***************************************************************************)
\* An entry of latestByType: no step, or step i of session s of the list.
NoChoice == [chosen |-> FALSE, s |-> 0, i |-> 0]
Choice(s, i) == [chosen |-> TRUE, s |-> s, i |-> i]

\* for (const step of session.steps) if (step.selected_values &&
\* Object.keys(step.selected_values).length > 0) latestByType[step.step_type] = step;
\* from step i of session s on.
RECURSIVE CollectSteps(_, _, _, _)
CollectSteps(acc, ss, s, i) ==
    IF i > Len(ss[s].steps) THEN acc
    ELSE CollectSteps(IF NonEmpty(ss[s].steps[i].selected_values)
                      THEN [acc EXCEPT ![ss[s].steps[i].step_type] = Choice(s, i)]
                      ELSE acc,
                      ss, s, i + 1)

\* for (const session of [...sessions].reverse()): sessions s, s - 1, ..., 1 of the list.
RECURSIVE CollectReversed(_, _, _)
CollectReversed(acc, ss, s) ==
    IF s = 0 THEN acc ELSE CollectReversed(CollectSteps(acc, ss, s, 1), ss, s - 1)

\* The same loop over the list as it is, sessions s, s + 1, ..., Len(ss).
RECURSIVE CollectListed(_, _, _)
CollectListed(acc, ss, s) ==
    IF s > Len(ss) THEN acc ELSE CollectListed(CollectSteps(acc, ss, s, 1), ss, s + 1)

\* Variant of latestByType: the sessions are visited in the order of the list.
latestByType_listOrder(ss) ==
    CollectListed([t \in CalibrationStepType |-> NoChoice], ss, 1)

\* latestByType of RecommendedSummary for the list ss of sessions.
latestByType(ss) ==
    CollectReversed([t \in CalibrationStepType |-> NoChoice], ss, Len(ss))

(***************************************************************************)
(* CalibrationSection: the delete buttons of the history list              *)
(***************************************************************************)
\* The rows followed: one session of the history list and one step of it.
Rows == {"session", "step"}

\* A row that is not rendered has no button.
NoButton == [mounted |-> FALSE, confirming |-> FALSE, timerRef |-> 0]
\* ConfirmDeleteButton as mounted: useState(false), useRef(null).
NewButton == [mounted |-> TRUE, confirming |-> FALSE, timerRef |-> 0]

\* A timer scheduled by the button of row r, with the id setTimeout returned.
Timer(r, id) == <<r, id>>

\* clearTimeout(timerRef.current) of the button b of row r.
ClearTimeout(ts, r, b) == ts \ {Timer(r, b.timerRef)}

DeleteIdle ==
    /\ deleteButtons = [r \in Rows |-> NoButton]
    /\ timers = {}
    /\ timerCount = 0
    /\ deleteRequests = <<>>

\* The page of a filament for which the summary is not followed.
\* The inputs of the volumetric_speed step the autoCompute formula reads.
VolumetricKeys == {"start_speed", "step_size", "measured_height"}

\* A volumetric_speed step without values: no input is entered, no result.
ComputeIdle ==
    /\ volumetricInputs = [k \in VolumetricKeys |-> NullNum]
    /\ volumetricResult = NullNum

\* The filament has no session older than the one followed.
StartIdle ==
    /\ earlier = <<>>
    /\ earlierListed = <<>>

SummaryIdle ==
    /\ StartIdle
    /\ sessions = <<>>
    /\ summary = [t \in CalibrationStepType |-> NoChoice]
    /\ clock = 0
    /\ DeleteIdle
    /\ ComputeIdle

(***************************************************************************)
(* Initial state: one in_progress session shown in the list, either new or  *)
(* with the steps before input_shaping already saved by an earlier run.    *)
(***************************************************************************)
\* A Step Result as Save & Continue persists it for a form with a typed result.
SavedStep(t) ==
    [step_type |-> t, inputs |-> Null,
     outputs |-> Map({<<OutKey(t), "v1">>}), selected_values |-> Map({<<OutKey(t), "v1">>}),
     notes |-> "null", confidence |-> "null"]

\* The steps of the first n step types, saved in canonical order.
SavedPrefix(n) == [i \in 1..n |-> SavedStep(WIZARD_STEP_ORDER[i])]

InitialSteps == {SavedPrefix(0), SavedPrefix(7)}

WizardUnmounted ==
    /\ currentIdx = 0
    /\ doneTypes = {}
    /\ savedValues = [t \in CalibrationStepType |-> NoEntry]
    /\ form = EmptyForm
    /\ confirmOpen = FALSE
    /\ stepContent = InitialStepContent

Init ==
    /\ status = "in_progress"
    /\ steps \in InitialSteps
    /\ view = [status |-> "in_progress", steps |-> steps]
    /\ refetching = FALSE
    /\ wizardSession = ClosedWizard
    /\ WizardUnmounted
    /\ stepDrawer = ClosedDrawer
    /\ sessionModal = FALSE
    /\ inflight = <<>>
    /\ signal = "none"
    /\ edits = 0
    /\ navs = 0
    /\ created = 0
    /\ SummaryIdle

(***************************************************************************)
(* CalibrationSection: resume, and the wizard's init effect                *)
(***************************************************************************)
\* The state of a wizard mounted on a session with persisted steps ss.
OpenWizard(ss) ==
    LET done == StepTypesOf(ss)
        sv == SeedSavedValues(ss)
        startIdx == StartIdx(done)
    IN  /\ wizardSession' = [open |-> TRUE, steps |-> ss]
        /\ doneTypes' = done
        /\ savedValues' = sv
        /\ form' = Restored(sv, StepAt(startIdx), startIdx # 0, "tower")
        /\ currentIdx' = startIdx
        /\ confirmOpen' = FALSE
        /\ stepContent' = InitialStepContent

\* Resume button / dropdown entry: setWizardSession(s) for an in_progress session of the list.
Resume ==
    /\ UNCHANGED summaryVars
    /\ PageActive
    /\ view.status = "in_progress"
    /\ OpenWizard(view.steps)
    /\ signal' = "none"
    /\ UNCHANGED <<status, steps, view, refetching, stepDrawer, sessionModal, inflight, edits, navs, created>>

\* The filament has no session and none is being created.
NoSessionYet ==
    /\ status = "absent"
    /\ \A i \in 1..Len(inflight) : inflight[i].kind # "create_session"

\* inProgressSessions of the render: the in_progress sessions of the list.
inProgressSessions ==
    (IF view.status = "in_progress" THEN 1 ELSE 0)
    + Cardinality({j \in 1..Len(earlierListed) : earlierListed[j] = "in_progress"})

\* The sessions the backend holds for the filament.
SessionCount == (IF status = "absent" THEN 0 ELSE 1) + Len(earlier)

\* The requests of q that create a session.
SessionCreates(q) == {j \in 1..Len(q) : q[j].kind = "create_session"}

\* Room for one more session within the bound.
RoomForSession ==
    /\ RoomForRequest
    /\ SessionCount + Cardinality(SessionCreates(inflight)) < MaxSessions

\* Start button, rendered while the list holds no in_progress session and
\* disabled only by query.isLoading, which is true during the first load of
\* the list only: handleStartWizard() sends createSession with status
\* in_progress.
handleStartWizard ==
    /\ UNCHANGED <<summaryVars, stepContent>>
    /\ PageActive
    /\ inProgressSessions = 0
    /\ RoomForSession
    /\ inflight' = Mutate(inflight, CreateSessionReq("in_progress"))
    /\ signal' = "none"
    /\ UNCHANGED <<status, steps, view, refetching, wizardSession, currentIdx, doneTypes,
                   savedValues, form, confirmOpen, stepDrawer, sessionModal, edits, navs, created>>

\* The wizard component is unmounted: its state is gone and its hooks lose their callbacks.
UnmountWizard(q) ==
    /\ wizardSession' = ClosedWizard
    /\ currentIdx' = 0
    /\ doneTypes' = {}
    /\ savedValues' = [t \in CalibrationStepType |-> NoEntry]
    /\ form' = EmptyForm
    /\ confirmOpen' = FALSE
    /\ stepContent' = InitialStepContent
    /\ inflight' = Unmount(q, WizardHooks)

\* Variant of Close: pausing saves the displayed step on the way out.
Close_savesStep ==
    /\ UNCHANGED summaryVars
    /\ WizardActive
    /\ RoomForStep
    /\ UnmountWizard(Mutate(inflight,
           CreateStepReq("wizard.createStep", "close",
                         [step_type |-> currentStepType,
                          inputs |-> Coalesce(form.inputs, Null),
                          outputs |-> Coalesce(form.result, Null),
                          selected_values |-> Coalesce(form.result, Null),
                          notes |-> CoalesceStr(form.notes),
                          confidence |-> CoalesceStr(form.confidence)],
                         currentIdx, isLast)))
    /\ refetching' = TRUE
    /\ signal' = "none"
    /\ UNCHANGED <<status, steps, view, stepDrawer, sessionModal, edits, navs, created>>

\* onClose of the wizard (modal close icon or the pause button): setWizardSession(null); refetch().
Close ==
    /\ UNCHANGED summaryVars
    /\ WizardActive
    /\ UnmountWizard(inflight)
    /\ refetching' = TRUE
    /\ signal' = "none"
    /\ UNCHANGED <<status, steps, view, stepDrawer, sessionModal, edits, navs, created>>

\* The list request is answered: useList returns the backend's session.
ListResponse ==
    /\ UNCHANGED <<pageVars, earlier, stepContent>>
    /\ refetching
    /\ view' = [status |-> status, steps |-> steps]
    /\ earlierListed' = earlier
    /\ refetching' = FALSE
    /\ signal' = "none"
    /\ UNCHANGED <<status, steps, wizardSession, currentIdx, doneTypes, savedValues, form,
                   confirmOpen, stepDrawer, sessionModal, inflight, edits, navs, created>>

(***************************************************************************)
(* CalibrationWizard: navigation and editing                               *)
(***************************************************************************)
navigateTo(newIdx) ==
    LET sv == [savedValues EXCEPT ![StepAt(currentIdx)] = Entry(form)]
    IN  /\ savedValues' = sv
        /\ form' = Restored(sv, StepAt(newIdx), newIdx # currentIdx, stepContent.paMethod)
        /\ currentIdx' = newIdx
        /\ stepContent' = IF newIdx # currentIdx THEN ResetOnStepType(stepContent)
                                                 ELSE stepContent

\* Click on a sidebar entry: always enabled.
SidebarClick(idx) ==
    /\ UNCHANGED summaryVars
    /\ WizardActive
    /\ navs < MaxNavs
    /\ navs' = navs + 1
    /\ navigateTo(idx)
    /\ signal' = "none"
    /\ UNCHANGED <<status, steps, view, refetching, wizardSession, doneTypes, confirmOpen,
                   stepDrawer, sessionModal, inflight, edits, created>>

\* Back button: disabled={isFirst || isLoading}.
Back ==
    /\ UNCHANGED summaryVars
    /\ WizardActive
    /\ ~(isFirst \/ isLoading)
    /\ navs < MaxNavs
    /\ navs' = navs + 1
    /\ navigateTo(currentIdx - 1)
    /\ signal' = "none"
    /\ UNCHANGED <<status, steps, view, refetching, wizardSession, doneTypes, confirmOpen,
                   stepDrawer, sessionModal, inflight, edits, created>>

\* onChange of the input field k of a step of type t: the value is stored and
\* the auto-compute effect runs on the changed inputs.
InputChanged(t, f, k, v, method) ==
    AutoComputeEffect(t, [f EXCEPT !.inputs = Put(Coalesce(f.inputs, EmptyMap), k, v)], method)

\* onChange of the output field k: the value is stored in result.
OutputChanged(f, k, v) == [f EXCEPT !.result = Put(Coalesce(f.result, EmptyMap), k, v)]

\* Test Setup, the section of the input fields, is rendered: the step has input
\* fields and is not pressure_advance in pattern mode.
InputsShown ==
    /\ InputKeys(currentStepType) # {}
    /\ ~(currentStepType = "pressure_advance" /\ stepContent.paMethod = "pattern")

\* The user changes one field of the displayed step.
EditField(field) ==
    /\ UNCHANGED <<summaryVars, stepContent>>
    /\ WizardActive
    /\ edits < MaxEdits
    /\ edits' = edits + 1
    /\ \/ /\ field = "result"
          /\ form' = OutputChanged(form, OutKey(currentStepType), "v1")
       \/ /\ field = "inputs"
          /\ InputsShown
          /\ form' = InputChanged(currentStepType, form, InKey(currentStepType), "v1",
                                  stepContent.paMethod)
       \/ /\ field = "notes"
          /\ form' = [form EXCEPT !.notes = "n1"]
       \/ /\ field = "confidence"
          /\ form' = [form EXCEPT !.confidence = "high"]
    /\ signal' = "none"
    /\ UNCHANGED <<status, steps, view, refetching, wizardSession, currentIdx, doneTypes,
                   savedValues, confirmOpen, stepDrawer, sessionModal, inflight, navs, created>>

(***************************************************************************)
(* StepContent: the fields of the displayed step, the pressure-advance      *)
(* method and the flow-ratio calculator                                    *)
(***************************************************************************)
\* What the actions of StepContent leave alone besides form and stepContent.
stepFrame == <<status, steps, view, refetching, wizardSession, currentIdx, doneTypes,
               savedValues, confirmOpen, stepDrawer, sessionModal, inflight, edits, navs,
               created, summaryVars>>

\* The values typed into a number field: a number, or null when it is cleared.
TypedValues == {"v1", "null"}

\* The user sets or clears the input field k of the displayed step.
EditInput(k, v) ==
    /\ WizardActive
    /\ InputsShown
    /\ k \in InputKeys(currentStepType)
    /\ form' = InputChanged(currentStepType, form, k, v, stepContent.paMethod)
    /\ signal' = "none"
    /\ UNCHANGED <<stepFrame, stepContent>>

\* The user sets or clears the first output field of the displayed step.
EditOutput(v) ==
    /\ WizardActive
    /\ form' = OutputChanged(form, OutKey(currentStepType), v)
    /\ signal' = "none"
    /\ UNCHANGED <<stepFrame, stepContent>>

\* handlePaMethodChange(val): the Segmented control reports a change of its
\* value; result is emptied, and the auto-compute effect runs for the new
\* method on the inputs the form store still holds.
handlePaMethodChange(val) ==
    /\ WizardActive
    /\ currentStepType = "pressure_advance"
    /\ val # stepContent.paMethod
    /\ stepContent' = [stepContent EXCEPT !.paMethod = val]
    /\ form' = AutoComputeEffect(currentStepType, [form EXCEPT !.result = EmptyMap], val)
    /\ signal' = "none"
    /\ UNCHANGED stepFrame

\* The flow-ratio calculator is rendered for the flow_rate step.
FlowCalcShown == WizardActive /\ currentStepType = "flow_rate"

\* Variant of handleFlowMethodChange: the method selector is rendered in every
\* phase and sets the method without resetting the calculator.
handleFlowMethodChange_keepsPhase(val) ==
    /\ FlowCalcShown
    /\ val # stepContent.flowCalcMethod
    /\ stepContent' = [stepContent EXCEPT !.flowCalcMethod = val]
    /\ signal' = "none"
    /\ UNCHANGED <<stepFrame, form>>

\* handleFlowMethodChange(val): the method selector, rendered in the idle phase
\* only, reports a change of its value.
handleFlowMethodChange(val) ==
    /\ FlowCalcShown
    /\ stepContent.flowCalcPhase = "idle"
    /\ val # stepContent.flowCalcMethod
    /\ stepContent' = resetFlowCalcState([stepContent EXCEPT !.flowCalcMethod = val])
    /\ signal' = "none"
    /\ UNCHANGED <<stepFrame, form>>

\* "Start" of the idle phase: setFlowCalcPhase("pass1").
FlowCalcStart ==
    /\ FlowCalcShown
    /\ stepContent.flowCalcPhase = "idle"
    /\ stepContent' = [stepContent EXCEPT !.flowCalcPhase = "pass1"]
    /\ signal' = "none"
    /\ UNCHANGED <<stepFrame, form>>

\* The values typed into the calculator: a flow ratio of 0.98, a YOLO
\* modifier of 0.02 or of 0.6 (the field takes -1 to 1), a pass modifier of
\* 5.0 percent, or a cleared field.
TypedRatios == {NullNum, Num(98000)}
TypedYoloModifiers == {NullNum, Num(2000), Num(60000)}
TypedPassModifiers == {NullNum, Num(50)}

\* The number fields of the calculator, and the values typed into each.
FlowCalcFields ==
    {"yoloFlowRatioOld", "yoloModifier", "pass1FlowRatio", "pass1Modifier",
     "pass2FlowRatio", "pass2Modifier"}

TypedInto(field) ==
    CASE field = "yoloModifier" -> TypedYoloModifiers
      [] field \in {"pass1Modifier", "pass2Modifier"} -> TypedPassModifiers
      [] OTHER -> TypedRatios

\* The number fields the calculator renders in its phase.
FlowCalcInputs ==
    CASE stepContent.flowCalcPhase = "pass1" /\ stepContent.flowCalcMethod = "yolo" ->
            {"yoloFlowRatioOld", "yoloModifier"}
      [] stepContent.flowCalcPhase = "pass1" /\ stepContent.flowCalcMethod = "legacy" ->
            {"pass1FlowRatio", "pass1Modifier"}
      [] stepContent.flowCalcPhase = "pass2" ->
            {"pass2FlowRatio", "pass2Modifier"}
      [] OTHER -> {}

\* onChange of a number field of the calculator: set<Field>(v).
FlowCalcInput(field, v) ==
    /\ FlowCalcShown
    /\ field \in FlowCalcInputs
    /\ stepContent' = [stepContent EXCEPT ![field] = v]
    /\ signal' = "none"
    /\ UNCHANGED <<stepFrame, form>>

\* Variant of FlowCalcCancel: only the phase is reset.
FlowCalcCancel_keepsFields ==
    /\ FlowCalcShown
    /\ stepContent.flowCalcPhase = "pass1"
    /\ stepContent' = [stepContent EXCEPT !.flowCalcPhase = "idle"]
    /\ signal' = "none"
    /\ UNCHANGED <<stepFrame, form>>

\* "Cancel" of the first pass: the phase and the fields of the method's pass.
FlowCalcCancel ==
    /\ FlowCalcShown
    /\ stepContent.flowCalcPhase = "pass1"
    /\ stepContent' =
          IF stepContent.flowCalcMethod = "yolo"
          THEN [stepContent EXCEPT !.flowCalcPhase = "idle",
                                   !.yoloFlowRatioOld = Num(DefaultFlowRatio),
                                   !.yoloModifier = NullNum]
          ELSE [stepContent EXCEPT !.flowCalcPhase = "idle",
                                   !.pass1FlowRatio = Num(DefaultFlowRatio),
                                   !.pass1Modifier = NullNum]
    /\ signal' = "none"
    /\ UNCHANGED <<stepFrame, form>>

\* "Next: Pass 2" of the legacy first pass: disabled={pass1Result === null}.
FlowCalcNext ==
    /\ FlowCalcShown
    /\ stepContent.flowCalcPhase = "pass1"
    /\ stepContent.flowCalcMethod = "legacy"
    /\ \E e \in FloatError :
          /\ IsNum(pass1Result(stepContent, e))
          /\ stepContent' = [stepContent EXCEPT !.pass2FlowRatio = pass1Result(stepContent, e),
                                                !.flowCalcPhase = "pass2"]
    /\ signal' = "none"
    /\ UNCHANGED <<stepFrame, form>>

\* Variant of FlowCalcBack: the modifier of the second pass is kept.
FlowCalcBack_keepsModifier ==
    /\ FlowCalcShown
    /\ stepContent.flowCalcPhase = "pass2"
    /\ stepContent' = [stepContent EXCEPT !.flowCalcPhase = "pass1"]
    /\ signal' = "none"
    /\ UNCHANGED <<stepFrame, form>>

\* "Back" of the second pass.
FlowCalcBack ==
    /\ FlowCalcShown
    /\ stepContent.flowCalcPhase = "pass2"
    /\ stepContent' = [stepContent EXCEPT !.flowCalcPhase = "pass1", !.pass2Modifier = NullNum]
    /\ signal' = "none"
    /\ UNCHANGED <<stepFrame, form>>

\* The ratio applyFlowCalc writes.
finalRatio(sc, e) ==
    IF sc.flowCalcMethod = "yolo" THEN yoloResult(sc, e)
    ELSE IF IsNum(pass2Result(sc, e)) THEN pass2Result(sc, e) ELSE pass1Result(sc, e)

\* Variant of applyFlowCalc: result is replaced by the ratio alone.
applyFlowCalc_replacesResult ==
    /\ FlowCalcShown
    /\ \/ /\ stepContent.flowCalcPhase = "pass1"
          /\ stepContent.flowCalcMethod = "yolo"
          /\ IsNum(yoloResult(stepContent, 0))
       \/ /\ stepContent.flowCalcPhase = "pass2"
          /\ IsNum(pass2Result(stepContent, 0))
    /\ \E e \in FloatError :
          form' = IF IsNum(finalRatio(stepContent, e))
                  THEN [form EXCEPT !.result =
                           Map({<<"flow_ratio", ToString(ValueOf(finalRatio(stepContent, e)))>>})]
                  ELSE form
    /\ stepContent' = resetFlowCalcState(stepContent)
    /\ signal' = "none"
    /\ UNCHANGED stepFrame

\* "Apply to Form": disabled={yoloResult === null} in the YOLO pass,
\* disabled={pass2Result === null} in the second pass. The ratio is written
\* into result.flow_ratio as its count of 0.00001 units.
applyFlowCalc ==
    /\ FlowCalcShown
    /\ \/ /\ stepContent.flowCalcPhase = "pass1"
          /\ stepContent.flowCalcMethod = "yolo"
          /\ IsNum(yoloResult(stepContent, 0))
       \/ /\ stepContent.flowCalcPhase = "pass2"
          /\ IsNum(pass2Result(stepContent, 0))
    /\ \E e \in FloatError :
          form' = IF IsNum(finalRatio(stepContent, e))
                  THEN OutputChanged(form, "flow_ratio",
                                     ToString(ValueOf(finalRatio(stepContent, e))))
                  ELSE form
    /\ stepContent' = resetFlowCalcState(stepContent)
    /\ signal' = "none"
    /\ UNCHANGED stepFrame

\* The VFA section is rendered for the vfa step.
VfaShown == WizardActive /\ currentStepType = "vfa"

\* The speeds typed into the field of the new artifact speed, in mm/s, or the
\* cleared field.
TypedSpeeds == {NullNum, Num(150), Num(100)}

\* onChange of the field of the new artifact speed: setNewArtifactSpeed(v).
SetNewArtifactSpeed(v) ==
    /\ VfaShown
    /\ v # stepContent.newArtifactSpeed
    /\ stepContent' = [stepContent EXCEPT !.newArtifactSpeed = v]
    /\ signal' = "none"
    /\ UNCHANGED <<stepFrame, form>>

\* s with x put before the first element greater than x.
RECURSIVE InsertAsc(_, _)
InsertAsc(s, x) ==
    IF s = <<>> THEN <<x>>
    ELSE IF x < Head(s) THEN <<x>> \o s
    ELSE <<Head(s)>> \o InsertAsc(Tail(s), x)

\* s.sort((a, b) => a - b): the elements of s in ascending order.
RECURSIVE SortAsc(_)
SortAsc(s) == IF s = <<>> THEN <<>> ELSE InsertAsc(SortAsc(Tail(s)), Head(s))

\* Variant of addArtifactSpeed: the speed is appended and the list not sorted.
addArtifactSpeed_unsorted ==
    /\ VfaShown
    /\ IsNum(stepContent.newArtifactSpeed)
    /\ Len(stepContent.artifactSpeeds) < MaxArtifacts
    /\ LET speeds == Append(stepContent.artifactSpeeds, ValueOf(stepContent.newArtifactSpeed))
       IN  /\ stepContent' = [stepContent EXCEPT !.artifactSpeeds = speeds,
                                                 !.newArtifactSpeed = NullNum]
           /\ form' = VfaEffect(currentStepType, form, speeds)
    /\ signal' = "none"
    /\ UNCHANGED stepFrame

\* addArtifactSpeed(), from "Add Speed" (disabled while the field is null) or
\* Enter in the field (returns at once while it is null): the speed is
\* appended, the list sorted, the field cleared; the VFA effect then runs on
\* the new list.
addArtifactSpeed ==
    /\ VfaShown
    /\ IsNum(stepContent.newArtifactSpeed)
    /\ Len(stepContent.artifactSpeeds) < MaxArtifacts
    /\ LET speeds == SortAsc(Append(stepContent.artifactSpeeds,
                                    ValueOf(stepContent.newArtifactSpeed)))
       IN  /\ stepContent' = [stepContent EXCEPT !.artifactSpeeds = speeds,
                                                 !.newArtifactSpeed = NullNum]
           /\ form' = VfaEffect(currentStepType, form, speeds)
    /\ signal' = "none"
    /\ UNCHANGED stepFrame

\* removeArtifactSpeed(idx), from the delete button of row idx (rows are
\* counted from 1 here): the row is filtered out; the VFA effect then runs on
\* the new list.
removeArtifactSpeed(idx) ==
    /\ VfaShown
    /\ idx \in 1..Len(stepContent.artifactSpeeds)
    /\ LET speeds == RemoveAt(stepContent.artifactSpeeds, idx)
       IN  /\ stepContent' = [stepContent EXCEPT !.artifactSpeeds = speeds]
           /\ form' = VfaEffect(currentStepType, form, speeds)
    /\ signal' = "none"
    /\ UNCHANGED stepFrame

(***************************************************************************)
(* CalibrationWizard: save, skip, complete                                 *)
(***************************************************************************)
\* Variant of SavePayload: the result is sent as outputs only.
SavePayload_outputsOnly(t, f) ==
    [step_type |-> t,
     inputs |-> Coalesce(f.inputs, Null),
     outputs |-> Coalesce(f.result, Null),
     selected_values |-> Null,
     notes |-> CoalesceStr(f.notes),
     confidence |-> CoalesceStr(f.confidence)]

\* The values saveCurrentStep sends for the displayed step.
SavePayload(t, f) ==
    LET result == Coalesce(f.result, Null)
    IN  [step_type |-> t,
         inputs |-> Coalesce(f.inputs, Null),
         outputs |-> result,
         selected_values |-> result,
         notes |-> CoalesceStr(f.notes),
         confidence |-> CoalesceStr(f.confidence)]

\* The values handleSaveAsSkipped sends for the displayed step.
SkippedPayload(t) ==
    [step_type |-> t,
     inputs |-> Null,
     outputs |-> SKIPPED,
     selected_values |-> Null,
     notes |-> "null",
     confidence |-> "null"]

\* saveCurrentStep(onDone): createStep(...) with the callbacks of this render.
saveCurrentStep(q) ==
    Mutate(q, CreateStepReq("wizard.createStep", "save",
                            SavePayload(currentStepType, form), currentIdx, isLast))

\* markComplete(): updateSession({status: "complete"}, {onSuccess: onComplete}).
markComplete(q, origin) ==
    Mutate(q, UpdateSessionReq("wizard.updateSession", origin, "complete"))

\* Save & Continue / Save & Finish button: loading={isLoading} swallows clicks.
handleSaveAndContinue ==
    /\ UNCHANGED <<summaryVars, stepContent>>
    /\ WizardActive
    /\ ~isLoading
    /\ RoomForStep
    /\ inflight' = saveCurrentStep(inflight)
    /\ signal' = "none"
    /\ UNCHANGED <<status, steps, view, refetching, wizardSession, currentIdx, doneTypes,
                   savedValues, form, confirmOpen, stepDrawer, sessionModal, edits, navs, created>>

\* Variant of handleSkip: Skip saves the displayed step before it moves on.
handleSkip_savesStep ==
    /\ UNCHANGED summaryVars
    /\ WizardActive
    /\ ~isLoading
    /\ RoomForStep
    /\ IF isLast
       THEN /\ confirmOpen' = TRUE
            /\ UNCHANGED <<currentIdx, savedValues, form, navs, inflight, stepContent>>
       ELSE /\ navs < MaxNavs
            /\ navs' = navs + 1
            /\ navigateTo(currentIdx + 1)
            /\ inflight' = saveCurrentStep(inflight)
            /\ UNCHANGED confirmOpen
    /\ signal' = "none"
    /\ UNCHANGED <<status, steps, view, refetching, wizardSession, doneTypes,
                   stepDrawer, sessionModal, edits, created>>

\* Variant of handleSkip: Skip on the last step completes the session at once.
handleSkip_noConfirm ==
    /\ UNCHANGED summaryVars
    /\ WizardActive
    /\ ~isLoading
    /\ IF isLast
       THEN /\ RoomForRequest
            /\ inflight' = markComplete(inflight, "skip_finish")
            /\ UNCHANGED <<currentIdx, savedValues, form, navs, confirmOpen, stepContent>>
       ELSE /\ navs < MaxNavs
            /\ navs' = navs + 1
            /\ navigateTo(currentIdx + 1)
            /\ UNCHANGED <<confirmOpen, inflight>>
    /\ signal' = "none"
    /\ UNCHANGED <<status, steps, view, refetching, wizardSession, doneTypes,
                   stepDrawer, sessionModal, edits, created>>

\* Skip / Skip & Finish button: disabled={isLoading}.
handleSkip ==
    /\ UNCHANGED summaryVars
    /\ WizardActive
    /\ ~isLoading
    /\ IF isLast
       THEN /\ confirmOpen' = TRUE
            /\ UNCHANGED <<currentIdx, savedValues, form, navs, stepContent>>
       ELSE /\ navs < MaxNavs
            /\ navs' = navs + 1
            /\ navigateTo(currentIdx + 1)
            /\ UNCHANGED confirmOpen
    /\ signal' = "none"
    /\ UNCHANGED <<status, steps, view, refetching, wizardSession, doneTypes,
                   stepDrawer, sessionModal, inflight, edits, created>>

\* OK of the skip-to-finish confirmation: onOk: markComplete.
ConfirmOk ==
    /\ UNCHANGED <<summaryVars, stepContent>>
    /\ wizardSession.open
    /\ confirmOpen
    /\ RoomForRequest
    /\ confirmOpen' = FALSE
    /\ inflight' = markComplete(inflight, "skip_finish")
    /\ signal' = "none"
    /\ UNCHANGED <<status, steps, view, refetching, wizardSession, currentIdx, doneTypes,
                   savedValues, form, stepDrawer, sessionModal, edits, navs, created>>

\* Cancel of the skip-to-finish confirmation.
ConfirmCancel ==
    /\ UNCHANGED <<summaryVars, stepContent>>
    /\ wizardSession.open
    /\ confirmOpen
    /\ confirmOpen' = FALSE
    /\ signal' = "none"
    /\ UNCHANGED <<status, steps, view, refetching, wizardSession, currentIdx, doneTypes,
                   savedValues, form, stepDrawer, sessionModal, inflight, edits, navs, created>>

\* "My printer handles this - skip it" button, rendered on input_shaping only;
\* it has no disabled / loading prop.
handleSaveAsSkipped ==
    /\ UNCHANGED <<summaryVars, stepContent>>
    /\ WizardActive
    /\ currentStepType = "input_shaping"
    /\ RoomForStep
    /\ inflight' = Mutate(inflight,
                          CreateStepReq("wizard.createStep", "skipNA",
                                        SkippedPayload(currentStepType), currentIdx, isLast))
    /\ signal' = "none"
    /\ UNCHANGED <<status, steps, view, refetching, wizardSession, currentIdx, doneTypes,
                   savedValues, form, confirmOpen, stepDrawer, sessionModal, edits, navs, created>>

(***************************************************************************)
(* StepResultDrawer and SessionFormModal                                   *)
(***************************************************************************)
\* "Add step" button of a session: the drawer opens without a step.
openAddStep ==
    /\ UNCHANGED <<summaryVars, stepContent>>
    /\ PageActive
    /\ stepDrawer' = [open |-> TRUE, id |-> 0, step |-> NoStep]
    /\ signal' = "none"
    /\ UNCHANGED <<status, steps, view, refetching, wizardSession, currentIdx, doneTypes,
                   savedValues, form, confirmOpen, sessionModal, inflight, edits, navs, created>>

\* Edit button of a listed step: the drawer opens on that step of the list.
openEditStep(id) ==
    /\ UNCHANGED <<summaryVars, stepContent>>
    /\ PageActive
    /\ id \in 1..Len(view.steps)
    /\ stepDrawer' = [open |-> TRUE, id |-> id, step |-> view.steps[id]]
    /\ signal' = "none"
    /\ UNCHANGED <<status, steps, view, refetching, wizardSession, currentIdx, doneTypes,
                   savedValues, form, confirmOpen, sessionModal, inflight, edits, navs, created>>

\* The drawer's form when it is submitted: the values set on open (edit) or
\* none (add), the effects of the step type, and optionally a typed result.
DrawerForm(t, typed) ==
    LET base == IF stepDrawer.id = 0 THEN EmptyForm
                ELSE [inputs |-> Coalesce(stepDrawer.step.inputs, EmptyMap),
                      result |-> Coalesce(stepDrawer.step.selected_values,
                                          Coalesce(stepDrawer.step.outputs, EmptyMap)),
                      notes |-> stepDrawer.step.notes,
                      confidence |-> stepDrawer.step.confidence]
        shown == StepEffects(t, base, TRUE, "tower")
    IN  IF typed
        THEN [shown EXCEPT !.result = Put(Coalesce(shown.result, EmptyMap), OutKey(t), "v1")]
        ELSE shown

\* StepResultDrawer.onFinish: create (add) or update (edit); the Save button
\* has loading={isLoading}.
DrawerSubmit(t, typed) ==
    /\ UNCHANGED <<summaryVars, stepContent>>
    /\ stepDrawer.open
    /\ ~(IsPending("drawer.createStep") \/ IsPending("drawer.updateStep"))
    /\ IF stepDrawer.id = 0
       THEN /\ RoomForStep
            /\ inflight' = Mutate(inflight,
                   CreateStepReq("drawer.createStep", "drawer",
                                 SavePayload(t, DrawerForm(t, typed)), 0, FALSE))
       ELSE /\ RoomForRequest
            /\ t = stepDrawer.step.step_type
            /\ inflight' = Mutate(inflight,
                   UpdateStepReq("drawer.updateStep", "drawer",
                                 SavePayload(t, DrawerForm(t, typed)), stepDrawer.id))
    /\ signal' = "none"
    /\ UNCHANGED <<status, steps, view, refetching, wizardSession, currentIdx, doneTypes,
                   savedValues, form, confirmOpen, stepDrawer, sessionModal, edits, navs, created>>

\* The drawer is closed by the user: setStepDrawer(null) unmounts it.
DrawerClose ==
    /\ UNCHANGED <<summaryVars, stepContent>>
    /\ stepDrawer.open
    /\ stepDrawer' = ClosedDrawer
    /\ inflight' = Unmount(inflight, DrawerHooks)
    /\ signal' = "none"
    /\ UNCHANGED <<status, steps, view, refetching, wizardSession, currentIdx, doneTypes,
                   savedValues, form, confirmOpen, sessionModal, edits, navs, created>>

\* Edit button of the session: the session form opens.
openEditSession ==
    /\ UNCHANGED <<summaryVars, stepContent>>
    /\ PageActive
    /\ sessionModal' = TRUE
    /\ signal' = "none"
    /\ UNCHANGED <<status, steps, view, refetching, wizardSession, currentIdx, doneTypes,
                   savedValues, form, confirmOpen, stepDrawer, inflight, edits, navs, created>>

\* SessionFormModal.onFinish in edit mode with the selected status; the OK
\* button has confirmLoading={isLoading}.
SessionFormSubmit(st) ==
    /\ UNCHANGED <<summaryVars, stepContent>>
    /\ sessionModal
    /\ ~IsPending("form.updateSession")
    /\ RoomForRequest
    /\ inflight' = Mutate(inflight, UpdateSessionReq("form.updateSession", "form", st))
    /\ signal' = "none"
    /\ UNCHANGED <<status, steps, view, refetching, wizardSession, currentIdx, doneTypes,
                   savedValues, form, confirmOpen, stepDrawer, sessionModal, edits, navs, created>>

\* The session form is cancelled; SessionFormModal stays mounted.
SessionFormClose ==
    /\ UNCHANGED <<summaryVars, stepContent>>
    /\ sessionModal
    /\ sessionModal' = FALSE
    /\ signal' = "none"
    /\ UNCHANGED <<status, steps, view, refetching, wizardSession, currentIdx, doneTypes,
                   savedValues, form, confirmOpen, stepDrawer, inflight, edits, navs, created>>

(***************************************************************************)
(* Backend answers                                                         *)
(***************************************************************************)
\* The backend carries out request r.
BackendApply(r) ==
    /\ steps' = CASE r.kind = "create_step" -> Append(steps, r.step)
                  [] r.kind = "update_step" /\ r.target \in 1..Len(steps) ->
                        [steps EXCEPT ![r.target] = r.step]
                  [] r.kind = "create_session" -> <<>>
                  [] OTHER -> steps
    /\ status' = IF r.kind \in {"update_session", "create_session"} THEN r.status ELSE status
    /\ created' = IF r.kind = "create_step" THEN created + 1 ELSE created
    /\ earlier' = IF r.kind = "create_session" /\ status # "absent"
                  THEN <<status>> \o earlier ELSE earlier

\* Variant of WizardCreateSuccess: a skipped step completes the session as
\* the last step does.
WizardCreateSuccess_skipCompletes(r, rest) ==
    /\ doneTypes' = doneTypes \cup {r.step.step_type}
    /\ IF r.last \/ r.origin = "skipNA"
       THEN /\ inflight' = markComplete(rest, IF r.origin = "save" THEN "save_finish"
                                                                    ELSE "skipNA_finish")
            /\ UNCHANGED <<currentIdx, savedValues, form, stepContent>>
       ELSE /\ navigateTo(r.idx + 1)
            /\ inflight' = rest
    /\ signal' = "none"
    /\ UNCHANGED <<view, refetching, wizardSession, confirmOpen, stepDrawer, sessionModal>>

\* Variant of WizardCreateSuccess: the callback reads the index displayed when
\* the answer arrives instead of the index of the render that saved.
WizardCreateSuccess_displayedIndex(r, rest) ==
    /\ doneTypes' = doneTypes \cup {r.step.step_type}
    /\ IF isLast
       THEN /\ inflight' = markComplete(rest, IF r.origin = "save" THEN "save_finish"
                                                                    ELSE "skipNA_finish")
            /\ UNCHANGED <<currentIdx, savedValues, form, stepContent>>
       ELSE /\ navigateTo(currentIdx + 1)
            /\ inflight' = rest
    /\ signal' = "none"
    /\ UNCHANGED <<view, refetching, wizardSession, confirmOpen, stepDrawer, sessionModal>>

\* Variant of WizardCreateSuccess: the callback of the last step only marks
\* the step done and does not complete the session.
WizardCreateSuccess_lastStays(r, rest) ==
    /\ doneTypes' = doneTypes \cup {r.step.step_type}
    /\ IF r.last
       THEN /\ inflight' = rest
            /\ UNCHANGED <<currentIdx, savedValues, form, stepContent>>
       ELSE /\ navigateTo(r.idx + 1)
            /\ inflight' = rest
    /\ signal' = "none"
    /\ UNCHANGED <<view, refetching, wizardSession, confirmOpen, stepDrawer, sessionModal>>

\* Variant of WizardCreateSuccess: the callback stores the snapshot of the form
\* under the step that was saved (the currentIdx of the render that saved)
\* instead of the step displayed when the answer arrives.
WizardCreateSuccess_snapshotUnderSaved(r, rest) ==
    /\ doneTypes' = doneTypes \cup {r.step.step_type}
    /\ IF r.last
       THEN /\ inflight' = markComplete(rest, IF r.origin = "save" THEN "save_finish"
                                                                    ELSE "skipNA_finish")
            /\ UNCHANGED <<currentIdx, savedValues, form, stepContent>>
       ELSE LET sv == [savedValues EXCEPT ![StepAt(r.idx)] = Entry(form)]
            IN  /\ savedValues' = sv
                /\ form' = Restored(sv, StepAt(r.idx + 1), r.idx + 1 # currentIdx,
                                    stepContent.paMethod)
                /\ currentIdx' = r.idx + 1
                /\ stepContent' = IF r.idx + 1 # currentIdx
                                  THEN ResetOnStepType(stepContent) ELSE stepContent
                /\ inflight' = rest
    /\ signal' = "none"
    /\ UNCHANGED <<view, refetching, wizardSession, confirmOpen, stepDrawer, sessionModal>>

\* Variant of WizardCreateSuccess: the callback advances from the index
\* displayed when the answer arrives (currentIdxRef.current + 1), while the
\* choice between completing and advancing is that of the render that saved.
WizardCreateSuccess_refIndex(r, rest) ==
    /\ doneTypes' = doneTypes \cup {r.step.step_type}
    /\ IF r.last
       THEN /\ inflight' = markComplete(rest, IF r.origin = "save" THEN "save_finish"
                                                                    ELSE "skipNA_finish")
            /\ UNCHANGED <<currentIdx, savedValues, form, stepContent>>
       ELSE /\ navigateTo(currentIdx + 1)
            /\ inflight' = rest
    /\ signal' = "none"
    /\ UNCHANGED <<view, refetching, wizardSession, confirmOpen, stepDrawer, sessionModal>>

\* onSuccess of the wizard's createStep calls (saveCurrentStep and
\* handleSaveAsSkipped): mark the type done, then complete or advance, with
\* the step and index of the render that issued the request.
WizardCreateSuccess(r, rest) ==
    /\ doneTypes' = doneTypes \cup {r.step.step_type}
    /\ IF r.last
       THEN /\ inflight' = markComplete(rest, IF r.origin = "save" THEN "save_finish"
                                                                    ELSE "skipNA_finish")
            /\ UNCHANGED <<currentIdx, savedValues, form, stepContent>>
       ELSE /\ navigateTo(r.idx + 1)
            /\ inflight' = rest
    /\ signal' = "none"
    /\ UNCHANGED <<view, refetching, wizardSession, confirmOpen, stepDrawer, sessionModal>>

\* onSuccess of markComplete: onComplete() = setWizardSession(null); refetch().
WizardUpdateSuccess(r, rest) ==
    /\ UnmountWizard(rest)
    /\ refetching' = TRUE
    /\ signal' = "complete"
    /\ UNCHANGED <<view, stepDrawer, sessionModal>>

\* onSuccess of handleStartWizard: refetch(); setWizardSession(result.data),
\* the session as created, which has no steps. A wizard that is mounted
\* already (resumed on an older session meanwhile) gets the new session as
\* its prop and keeps its state: its init effect depends on `open` only.
StartSuccess(r, rest) ==
    /\ refetching' = TRUE
    /\ IF wizardSession.open
       THEN /\ wizardSession' = [open |-> TRUE, steps |-> <<>>]
            /\ UNCHANGED <<doneTypes, savedValues, form, currentIdx, confirmOpen,
                           stepContent>>
       ELSE OpenWizard(<<>>)
    /\ inflight' = rest
    /\ signal' = "none"
    /\ UNCHANGED <<view, stepDrawer, sessionModal>>

\* onSuccess of the drawer's requests: onSuccess() = refetch(); onClose().
DrawerSuccess(r, rest) ==
    /\ refetching' = TRUE
    /\ stepDrawer' = ClosedDrawer
    /\ inflight' = Unmount(rest, DrawerHooks)
    /\ signal' = "none"
    /\ UNCHANGED <<view, wizardSession, currentIdx, doneTypes, savedValues, form,
                   confirmOpen, sessionModal, stepContent>>

\* onSuccess of the session form's update: onSuccess() = refetch(); onClose().
FormSuccess(r, rest) ==
    /\ refetching' = TRUE
    /\ sessionModal' = FALSE
    /\ inflight' = rest
    /\ signal' = "none"
    /\ UNCHANGED <<view, wizardSession, currentIdx, doneTypes, savedValues, form,
                   confirmOpen, stepDrawer, stepContent>>

\* A request whose callbacks were detached is answered: nothing runs in the client.
NoCallback(r, rest) ==
    /\ inflight' = rest
    /\ signal' = "none"
    /\ UNCHANGED <<view, refetching, wizardSession, currentIdx, doneTypes, savedValues,
                   form, confirmOpen, stepDrawer, sessionModal, stepContent>>

\* The backend carries out request i and answers with success.
RespondOk(i) ==
    /\ UNCHANGED <<pageVars, earlierListed>>
    /\ i \in 1..Len(inflight)
    /\ LET r == inflight[i]
           rest == RemoveAt(inflight, i)
       IN  /\ BackendApply(r)
           /\ CASE r.cb # "attached" -> NoCallback(r, rest)
                [] r.cb = "attached" /\ r.hook = "wizard.createStep" ->
                      WizardCreateSuccess(r, rest)
                [] r.cb = "attached" /\ r.hook = "wizard.updateSession" ->
                      WizardUpdateSuccess(r, rest)
                [] r.cb = "attached" /\ r.hook \in DrawerHooks -> DrawerSuccess(r, rest)
                [] r.cb = "attached" /\ r.hook = "section.createSession" ->
                      StartSuccess(r, rest)
                [] OTHER -> FormSuccess(r, rest)
    /\ UNCHANGED <<edits, navs>>

\* Variant of RespondError: the wizard's create callback runs when the request
\* settles, whether it succeeded or failed.
RespondError_onSettled(i) ==
    /\ UNCHANGED summaryVars
    /\ i \in 1..Len(inflight)
    /\ LET r == inflight[i]
           rest == RemoveAt(inflight, i)
       IN  IF r.cb = "attached" /\ r.hook = "wizard.createStep"
           THEN /\ doneTypes' = doneTypes \cup {r.step.step_type}
                /\ IF r.last
                   THEN /\ inflight' = markComplete(rest, "save_finish")
                        /\ UNCHANGED <<currentIdx, savedValues, form, stepContent>>
                   ELSE /\ navigateTo(r.idx + 1)
                        /\ inflight' = rest
           ELSE /\ inflight' = rest
                /\ UNCHANGED <<currentIdx, doneTypes, savedValues, form, stepContent>>
    /\ signal' = "error"
    /\ UNCHANGED <<status, steps, view, refetching, wizardSession, confirmOpen, stepDrawer,
                   sessionModal, edits, navs, created>>

\* Request i fails: the callers pass no onError, only the error notification shows.
RespondError(i) ==
    /\ UNCHANGED <<summaryVars, stepContent>>
    /\ i \in 1..Len(inflight)
    /\ inflight' = RemoveAt(inflight, i)
    /\ signal' = "error"
    /\ UNCHANGED <<status, steps, view, refetching, wizardSession, currentIdx, doneTypes,
                   savedValues, form, confirmOpen, stepDrawer, sessionModal, edits, navs, created>>

(***************************************************************************)
(* Specification                                                           *)
(***************************************************************************)
Fields == {"inputs", "result", "notes", "confidence"}

\* Spec: the wizard on the session of the list, with the backend's answers.
Next ==
    \/ Resume
    \/ Close
    \/ ListResponse
    \/ \E idx \in Indices : SidebarClick(idx)
    \/ Back
    \/ \E field \in Fields : EditField(field)
    \/ handleSaveAndContinue
    \/ handleSkip
    \/ ConfirmOk
    \/ ConfirmCancel
    \/ handleSaveAsSkipped
    \/ \E i \in 1..MaxInflight : RespondOk(i)
    \/ \E i \in 1..MaxInflight : RespondError(i)

Spec == Init /\ [][Next]_vars

\* SpecStatus: the wizard (without field edits) together with the session
\* edit form, the two components that update the session.
NextStatus ==
    \/ Resume
    \/ Close
    \/ ListResponse
    \/ \E idx \in Indices : SidebarClick(idx)
    \/ Back
    \/ handleSaveAndContinue
    \/ handleSkip
    \/ ConfirmOk
    \/ ConfirmCancel
    \/ handleSaveAsSkipped
    \/ openEditSession
    \/ \E st \in CalibrationStatus : SessionFormSubmit(st)
    \/ SessionFormClose
    \/ \E i \in 1..MaxInflight : RespondOk(i)
    \/ \E i \in 1..MaxInflight : RespondError(i)

SpecStatus == Init /\ [][NextStatus]_vars

\* SpecOpen: the wizard is opened and closed on a session that has, from
\* earlier runs, steps of any set of step types (once or twice each).
StepsOfTypes(S) == SelectSeq(SavedPrefix(Len(WIZARD_STEP_ORDER)), LAMBDA st : st.step_type \in S)

InitOpen ==
    /\ status = "in_progress"
    /\ \E S \in SUBSET CalibrationStepType, twice \in BOOLEAN :
          steps = IF twice THEN StepsOfTypes(S) \o StepsOfTypes(S) ELSE StepsOfTypes(S)
    /\ view = [status |-> "in_progress", steps |-> steps]
    /\ refetching = FALSE
    /\ wizardSession = ClosedWizard
    /\ WizardUnmounted
    /\ stepDrawer = ClosedDrawer
    /\ sessionModal = FALSE
    /\ inflight = <<>>
    /\ signal = "none"
    /\ edits = 0
    /\ navs = 0
    /\ created = 0
    /\ SummaryIdle

NextOpen ==
    \/ Resume
    \/ Close
    \/ ListResponse

SpecOpen == InitOpen /\ [][NextOpen]_vars

(***************************************************************************)
(* SpecSummary: the sessions of one filament, the steps recorded in them   *)
(* and the summary RecommendedSummary renders from the list.               *)
(***************************************************************************)
SummaryTypes == {"temperature", "input_shaping"}

\* The Step Results the wizard and the drawer persist for type t: a typed
\* result, nothing entered, the empty result seeded from a step without
\* values and, for input_shaping, the skipped step and the skipped step saved
\* again from its seeded form.
PersistedSteps(t) ==
    {SavePayload(t, [EmptyForm EXCEPT !.result = Map({<<OutKey(t), "v1">>})]),
     SavePayload(t, EmptyForm),
     SavePayload(t, [EmptyForm EXCEPT !.result = EmptyMap])}
    \cup (IF t = "input_shaping"
          THEN {SkippedPayload(t), SavePayload(t, [EmptyForm EXCEPT !.result = SKIPPED])}
          ELSE {})

\* ICalibrationStepResult: the persisted values with the time of creation.
Recorded(step, at) ==
    [step_type |-> step.step_type, inputs |-> step.inputs, outputs |-> step.outputs,
     selected_values |-> step.selected_values, notes |-> step.notes,
     confidence |-> step.confidence, recorded_at |-> at]

StepsRecorded(ss) == {h \in (1..Len(ss)) \X (1..MaxSummarySteps) : h[2] <= Len(ss[h[1]].steps)}

\* handleStartWizard is answered: the backend holds a new in_progress session,
\* lists it before the older ones, and the refetched list is rendered.
SessionStarted ==
    /\ Len(sessions) < MaxSessions
    /\ sessions' = <<[status |-> "in_progress", steps |-> <<>>]>> \o sessions
    /\ summary' = latestByType(sessions')
    /\ UNCHANGED clock
    /\ UNCHANGED <<wizardVars, deleteVars, computeVars, startVars>>

\* A create(step) of the wizard or of the drawer for session s of the list is
\* answered: the backend appends the step with its time of creation, and the
\* refetched list is rendered.
StepRecorded(s, step) ==
    /\ s \in 1..Len(sessions)
    /\ Cardinality(StepsRecorded(sessions)) < MaxSummarySteps
    /\ sessions' = [sessions EXCEPT ![s].steps = Append(@, Recorded(step, clock))]
    /\ clock' = clock + 1
    /\ summary' = latestByType(sessions')
    /\ UNCHANGED <<wizardVars, deleteVars, computeVars, startVars>>

InitSummary == Init /\ steps = <<>>

NextSummary ==
    \/ SessionStarted
    \/ \E s \in 1..MaxSessions, t \in SummaryTypes : \E step \in PersistedSteps(t) :
          StepRecorded(s, step)

SpecSummary == InitSummary /\ [][NextSummary]_vars

(***************************************************************************)
(* SpecStart: a filament without session. The session is started, paused,  *)
(* resumed, navigated, its steps saved without field edits, and finished.  *)
(***************************************************************************)
InitStart ==
    /\ status = "absent"
    /\ steps = <<>>
    /\ view = [status |-> "absent", steps |-> <<>>]
    /\ refetching = FALSE
    /\ wizardSession = ClosedWizard
    /\ WizardUnmounted
    /\ stepDrawer = ClosedDrawer
    /\ sessionModal = FALSE
    /\ inflight = <<>>
    /\ signal = "none"
    /\ edits = 0
    /\ navs = 0
    /\ created = 0
    /\ SummaryIdle

\* SpecStart follows the first session of the filament: Start is clicked once.
StartFirstSession == NoSessionYet /\ handleStartWizard

NextStart ==
    \/ StartFirstSession
    \/ Resume
    \/ Close
    \/ ListResponse
    \/ \E idx \in Indices : SidebarClick(idx)
    \/ Back
    \/ handleSaveAndContinue
    \/ handleSkip
    \/ ConfirmOk
    \/ ConfirmCancel
    \/ \E i \in 1..MaxInflight : RespondOk(i)
    \/ \E i \in 1..MaxInflight : RespondError(i)

SpecStart == InitStart /\ [][NextStart]_vars

(***************************************************************************)
(* SpecRestart: a filament without session whose Start button is clicked   *)
(* whenever it is rendered; the wizard is opened, moved by the sidebar,    *)
(* closed and resumed, and the list is refetched. No step is saved.        *)
(***************************************************************************)
NextRestart ==
    \/ handleStartWizard
    \/ Resume
    \/ Close
    \/ ListResponse
    \/ \E idx \in Indices : SidebarClick(idx)
    \/ \E i \in 1..MaxInflight : RespondOk(i)

SpecRestart == InitStart /\ [][NextRestart]_vars

(***************************************************************************)
(* SpecDelete: a session and a step of it appear in the history list, and  *)
(* their delete buttons are clicked; the timers of the buttons fire and    *)
(* the delete requests are answered.                                       *)
(***************************************************************************)
\* What the actions of the history list leave alone.
deleteFrame == <<wizardVars, sessions, summary, clock, computeVars, startVars>>

Request(r) == [row |-> r, answered |-> FALSE]

\* The refetched list shows row r for the first time: its button is mounted.
\* The step is listed inside its session.
RowListed(r) ==
    /\ ~deleteButtons[r].mounted
    /\ r = "step" => deleteButtons["session"].mounted
    /\ \A i \in 1..Len(deleteRequests) : deleteRequests[i].row # r
    /\ deleteButtons' = [deleteButtons EXCEPT ![r] = NewButton]
    /\ UNCHANGED <<timers, timerCount, deleteRequests, deleteFrame>>

\* Variant of handleClick: the first click confirms at once.
handleClick_noArming(r) ==
    /\ deleteButtons[r].mounted
    /\ Len(deleteRequests) < MaxDeletes
    /\ timers' = ClearTimeout(timers, r, deleteButtons[r])
    /\ deleteButtons' = [deleteButtons EXCEPT ![r].confirming = FALSE]
    /\ deleteRequests' = Append(deleteRequests, Request(r))
    /\ UNCHANGED <<timerCount, deleteFrame>>

\* Variant of handleClick: the confirming click leaves the timer scheduled.
handleClick_keepsTimer(r) ==
    /\ deleteButtons[r].mounted
    /\ IF ~deleteButtons[r].confirming
       THEN /\ timerCount < MaxTimers
            /\ timerCount' = timerCount + 1
            /\ deleteButtons' = [deleteButtons EXCEPT ![r].confirming = TRUE,
                                                      ![r].timerRef = timerCount + 1]
            /\ timers' = timers \cup {Timer(r, timerCount + 1)}
            /\ UNCHANGED deleteRequests
       ELSE /\ Len(deleteRequests) < MaxDeletes
            /\ deleteButtons' = [deleteButtons EXCEPT ![r].confirming = FALSE]
            /\ deleteRequests' = Append(deleteRequests, Request(r))
            /\ UNCHANGED <<timers, timerCount>>
    /\ UNCHANGED deleteFrame

\* ConfirmDeleteButton.handleClick of row r. Disarmed: the button is armed and
\* a timer of 3000 ms is scheduled and kept in timerRef. Armed: the timer of
\* timerRef is cleared, the button is disarmed and onConfirm runs, which is
\* handleDeleteSession or handleDeleteStep: deleteItem(...) for the row.
handleClick(r) ==
    /\ deleteButtons[r].mounted
    /\ IF ~deleteButtons[r].confirming
       THEN /\ timerCount < MaxTimers
            /\ timerCount' = timerCount + 1
            /\ deleteButtons' = [deleteButtons EXCEPT ![r].confirming = TRUE,
                                                      ![r].timerRef = timerCount + 1]
            /\ timers' = timers \cup {Timer(r, timerCount + 1)}
            /\ UNCHANGED deleteRequests
       ELSE /\ Len(deleteRequests) < MaxDeletes
            /\ timers' = ClearTimeout(timers, r, deleteButtons[r])
            /\ deleteButtons' = [deleteButtons EXCEPT ![r].confirming = FALSE]
            /\ deleteRequests' = Append(deleteRequests, Request(r))
            /\ UNCHANGED timerCount
    /\ UNCHANGED deleteFrame

\* A scheduled timer fires: setConfirming(false) of the button that scheduled
\* it (without effect on a button that is gone).
TimerFires(r, id) ==
    /\ Timer(r, id) \in timers
    /\ timers' = timers \ {Timer(r, id)}
    /\ deleteButtons' = IF deleteButtons[r].mounted
                        THEN [deleteButtons EXCEPT ![r].confirming = FALSE]
                        ELSE deleteButtons
    /\ UNCHANGED <<timerCount, deleteRequests, deleteFrame>>

\* The rows that leave the list when row r is deleted: the row, and with the
\* session its step.
RowsOf(r) == IF r = "session" THEN Rows ELSE {r}

\* The backend answers delete request i. With success it has deleted the row,
\* onSuccess refetches, and the buttons of the rows that left the list are
\* unmounted: the cleanup of each clears the timer of its timerRef. A request
\* for a row that is already gone fails and changes nothing.
DeleteAnswered(i) ==
    /\ i \in 1..Len(deleteRequests)
    /\ ~deleteRequests[i].answered
    /\ LET r == deleteRequests[i].row
           gone == IF deleteButtons[r].mounted
                   THEN {x \in RowsOf(r) : deleteButtons[x].mounted} ELSE {}
       IN  /\ deleteButtons' = [x \in Rows |-> IF x \in gone THEN NoButton
                                                ELSE deleteButtons[x]]
           /\ timers' = timers \ {Timer(x, deleteButtons[x].timerRef) : x \in gone}
    /\ deleteRequests' = [deleteRequests EXCEPT ![i].answered = TRUE]
    /\ UNCHANGED <<timerCount, deleteFrame>>

NextDelete ==
    \/ \E r \in Rows : RowListed(r)
    \/ \E r \in Rows : handleClick(r)
    \/ \E r \in Rows, id \in 1..MaxTimers : TimerFires(r, id)
    \/ \E i \in 1..MaxDeletes : DeleteAnswered(i)

SpecDelete == InitSummary /\ [][NextDelete]_vars

\* The browser runs the callback of every timer that stays scheduled.
SpecDeleteLive ==
    SpecDelete /\ WF_vars(\E r \in Rows, id \in 1..MaxTimers : TimerFires(r, id))

(***************************************************************************)
(* SpecStep: the wizard opened on the session, one navigation, and the     *)
(* editing of the displayed step: its fields, the pressure-advance method  *)
(* and the flow-ratio calculator. No request is made.                      *)
(***************************************************************************)
\* The steps of the first n step types, each saved by "Not Applicable".
SkippedPrefix(n) == [i \in 1..n |-> SkippedPayload(WIZARD_STEP_ORDER[i])]

\* The session is new, or an earlier run saved the steps before
\* pressure_advance, before flow_rate, before input_shaping or before vfa, or
\* an earlier run marked the steps before input_shaping, or all steps, as not
\* applicable (the session stays in_progress when the request to complete it
\* was not answered with success).
StepSessions ==
    InitialSteps \cup {SavedPrefix(2), SavedPrefix(3), SavedPrefix(8),
                        SkippedPrefix(7), SkippedPrefix(9)}

InitStep ==
    /\ status = "in_progress"
    /\ steps \in StepSessions
    /\ view = [status |-> "in_progress", steps |-> steps]
    /\ refetching = FALSE
    /\ wizardSession = ClosedWizard
    /\ WizardUnmounted
    /\ stepDrawer = ClosedDrawer
    /\ sessionModal = FALSE
    /\ inflight = <<>>
    /\ signal = "none"
    /\ edits = 0
    /\ navs = 0
    /\ created = 0
    /\ SummaryIdle

NextStep ==
    \/ Resume
    \/ \E idx \in Indices : SidebarClick(idx)
    \/ \E k \in UNION {InputKeys(t) : t \in CalibrationStepType}, v \in TypedValues :
          EditInput(k, v)
    \/ \E v \in TypedValues : EditOutput(v)
    \/ \E val \in {"tower", "pattern"} : handlePaMethodChange(val)
    \/ \E val \in {"yolo", "legacy"} : handleFlowMethodChange(val)
    \/ FlowCalcStart
    \/ \E field \in FlowCalcFields : \E v \in TypedInto(field) : FlowCalcInput(field, v)
    \/ FlowCalcCancel
    \/ FlowCalcNext
    \/ FlowCalcBack
    \/ applyFlowCalc
    \/ \E v \in TypedSpeeds : SetNewArtifactSpeed(v)
    \/ addArtifactSpeed
    \/ \E idx \in 1..MaxArtifacts : removeArtifactSpeed(idx)

SpecStep == InitStep /\ [][NextStep]_vars

(***************************************************************************)
(* SpecPersist: the wizard resumed on flow_rate, the result typed or taken  *)
(* from the flow-ratio calculator, and the step saved.                     *)
(***************************************************************************)
\* An earlier run saved the steps before flow_rate.
InitPersist == InitStep /\ steps = SavedPrefix(3)

NextPersist ==
    \/ Resume
    \/ \E v \in TypedValues : EditOutput(v)
    \/ \E val \in {"yolo", "legacy"} : handleFlowMethodChange(val)
    \/ FlowCalcStart
    \/ \E field \in FlowCalcFields : \E v \in TypedInto(field) : FlowCalcInput(field, v)
    \/ FlowCalcNext
    \/ applyFlowCalc
    \/ handleSaveAndContinue
    \/ \E i \in 1..MaxInflight : RespondOk(i)

SpecPersist == InitPersist /\ [][NextPersist]_vars

(***************************************************************************)
(* SpecFlowCalc: the wizard resumed on flow_rate and the calculator used   *)
(* in every way: method selection, Start, edits, Next, Back, Cancel and    *)
(* Apply. The ratios typed include one whose product with the modifier of  *)
(* a pass lies exactly between two numbers of 5 decimals.                  *)
(***************************************************************************)
\* The values typed into the calculator here: a flow ratio of 1.0002, a YOLO
\* modifier of 0.05 or -0.02, a pass modifier of -2.5 percent, or a cleared field.
CalcRatios == {NullNum, Num(100020)}
CalcYoloModifiers == {NullNum, Num(5000), Num(0 - 2000)}
CalcPassModifiers == {NullNum, Num(0 - 25)}

CalcTypedInto(field) ==
    CASE field = "yoloModifier" -> CalcYoloModifiers
      [] field \in {"pass1Modifier", "pass2Modifier"} -> CalcPassModifiers
      [] OTHER -> CalcRatios

NextFlowCalc ==
    \/ Resume
    \/ \E val \in {"yolo", "legacy"} : handleFlowMethodChange(val)
    \/ FlowCalcStart
    \/ \E field \in FlowCalcFields : \E v \in CalcTypedInto(field) : FlowCalcInput(field, v)
    \/ FlowCalcCancel
    \/ FlowCalcNext
    \/ FlowCalcBack
    \/ applyFlowCalc

SpecFlowCalc == InitPersist /\ [][NextFlowCalc]_vars

(***************************************************************************)
(* SpecSeed: the wizard is opened on, and closed over, a session whose     *)
(* persisted steps are any the type ICalibrationStepResult admits: inputs, *)
(* outputs and selected_values each present or not, and differing.         *)
(***************************************************************************)
SeedTypes == {"temperature", "volumetric_speed"}

\* Step Results of type t as the backend may list them.
SeedSteps(t) ==
    {[step_type |-> t, inputs |-> i, outputs |-> o, selected_values |-> sel,
      notes |-> "null", confidence |-> "null"] :
        i \in {Null, Map({<<InKey(t), "v1">>})},
        o \in {Null, Map({<<OutKey(t), "v1">>})},
        sel \in {Null, EmptyMap, Map({<<OutKey(t), "v2">>})}}

\* The step lists of at most MaxSeedSteps such steps.
SeedSessions ==
    UNION {[1..n -> UNION {SeedSteps(t) : t \in SeedTypes}] : n \in 0..MaxSeedSteps}

InitSeed ==
    /\ status = "in_progress"
    /\ steps \in SeedSessions
    /\ view = [status |-> "in_progress", steps |-> steps]
    /\ refetching = FALSE
    /\ wizardSession = ClosedWizard
    /\ WizardUnmounted
    /\ stepDrawer = ClosedDrawer
    /\ sessionModal = FALSE
    /\ inflight = <<>>
    /\ signal = "none"
    /\ edits = 0
    /\ navs = 0
    /\ created = 0
    /\ SummaryIdle

NextSeed ==
    \/ Resume
    \/ Close
    \/ ListResponse

SpecSeed == InitSeed /\ [][NextSeed]_vars

(***************************************************************************)
(* SpecVolumetric: the volumetric_speed step with the numbers of its       *)
(* inputs. The inputs are entered one at a time, the auto-compute effect   *)
(* runs after each, and the result field is typed into.                    *)
(*                                                                         *)
(* The inputs have precision 1 and are counted in units of 0.1, the result *)
(* in units of 0.01. A double is counted in units of 0.000001: the value   *)
(* of the expression over the reals plus a rounding error of FloatError.   *)
(***************************************************************************)
\* 0.01 in units of 0.000001.
HundredthInMicro == 10000

\* The numbers an InputNumber of precision 1 and min 0 hands to the form.
TypedTenths == {NullNum} \cup {Num(n) : n \in 0..MaxTenths}

\* The values typed into the field max_volumetric_speed (precision 2, min 0).
TypedHundredths == {NullNum, Num(125)}

\* start + h * step as the double the expression evaluates to, with error e.
FloatSum(start, h, step, e) == (10 * start + h * step) * HundredthInMicro + e

\* parseFloat(x.toFixed(2)), cutting the decimals after the second off.
toFixed_truncates(x) == x \div HundredthInMicro

\* parseFloat(x.toFixed(2)): the n for which n / 100 is nearest to x, the
\* larger n of two; a negative x is rounded as -x and negated.
toFixed(x) ==
    IF x < 0 THEN 0 - ((HundredthInMicro \div 2 - x) \div HundredthInMicro)
    ELSE (x + HundredthInMicro \div 2) \div HundredthInMicro

\* STEP_CONFIGS.volumetric_speed.autoCompute: max_volumetric_speed of the
\* record it returns, NullNum when it returns the empty record.
autoCompute(inputs, e) ==
    LET start == inputs["start_speed"]
        step == inputs["step_size"]
        h == inputs["measured_height"]
    IN  IF start # NullNum /\ step # NullNum /\ h # NullNum
        THEN Num(toFixed(FloatSum(start[1], h[1], step[1], e)))
        ELSE NullNum

\* The auto-compute effect: the computed value is merged into the result, and
\* the result is left as it is when nothing was computed.
AutoComputeNumber(inputs, result, e) ==
    LET computed == autoCompute(inputs, e)
    IN  IF computed # NullNum THEN computed ELSE result

\* An input of the step is changed; the effect runs on the new inputs.
ChangeVolumetricInput(key, v) ==
    /\ UNCHANGED <<wizardVars, sessions, summary, clock, deleteVars, startVars>>
    /\ v # volumetricInputs[key]
    /\ volumetricInputs' = [volumetricInputs EXCEPT ![key] = v]
    /\ \E e \in FloatError :
          volumetricResult' = AutoComputeNumber(volumetricInputs', volumetricResult, e)

\* The result field is typed into. The inputs stay, so the effect does not run.
ChangeVolumetricResult(v) ==
    /\ UNCHANGED <<wizardVars, sessions, summary, clock, deleteVars, startVars>>
    /\ v # volumetricResult
    /\ volumetricResult' = v
    /\ UNCHANGED volumetricInputs

InitVolumetric == Init /\ steps = <<>>

NextVolumetric ==
    \/ \E key \in VolumetricKeys, v \in TypedTenths : ChangeVolumetricInput(key, v)
    \/ \E v \in TypedHundredths : ChangeVolumetricResult(v)

SpecVolumetric == InitVolumetric /\ [][NextVolumetric]_vars

(***************************************************************************)
(* SpecRecommended: the sessions of one filament with the vfa and          *)
(* temperature steps the wizard persists, and the tiles RecommendedSummary *)
(* renders from the list.                                                  *)
(***************************************************************************)
\* recommendedKeys of STEP_CONFIGS[t].
recommendedKeys(t) ==
    CASE t = "input_shaping" ->
            {"shaper_type_x", "frequency_x", "shaper_type_y", "frequency_y"}
      [] t = "vfa" -> {"min_avoidance_speed", "max_avoidance_speed"}
      [] OTHER -> {OutKey(t)}

\* vals of the tile of type t for the chosen step: the recommended keys whose
\* value in selected_values is neither undefined nor null.
vals(t, step) ==
    {k \in recommendedKeys(t) :
        \E p \in step.selected_values.kv : p[1] = k /\ p[2] # "null"}

\* The Step Results Save & Continue persists on the vfa step: with the
\* artifact list empty, as the step is when it is displayed, and with speeds
\* added to the list.
VfaSteps ==
    {SavePayload("vfa", VfaEffect("vfa", EmptyForm, speeds)) :
        speeds \in {<<>>, <<1>>, <<1, 2>>}}

\* The Step Results recorded in SpecRecommended for type t.
RecommendedSteps(t) == IF t = "vfa" THEN VfaSteps ELSE PersistedSteps(t)

NextRecommended ==
    \/ SessionStarted
    \/ \E s \in 1..MaxSessions, t \in {"vfa", "temperature"} :
          \E step \in RecommendedSteps(t) : StepRecorded(s, step)

SpecRecommended == InitSummary /\ [][NextRecommended]_vars

(***************************************************************************)
(* SpecSave: the wizard resumed, moved by Back or the sidebar, and then    *)
(* saved step after step until the session is complete. No request fails   *)
(* and the wizard is not closed.                                           *)
(***************************************************************************)
NextSave ==
    \/ Resume
    \/ \E idx \in Indices : SidebarClick(idx)
    \/ Back
    \/ handleSaveAndContinue
    \/ \E i \in 1..MaxInflight : RespondOk(i)
    \/ ListResponse

SpecSave == InitStep /\ [][NextSave]_vars

\* The user presses Save & Continue whenever the button takes the click, and
\* the backend answers every request.
SpecSaveLive ==
    /\ SpecSave
    /\ WF_vars(handleSaveAndContinue)
    /\ WF_vars(\E i \in 1..MaxInflight : RespondOk(i))

(***************************************************************************)
(* Properties                                                              *)
(***************************************************************************)
AllTypesDone == CalibrationStepType \subseteq doneTypes
LastOf(q) == q[Len(q)]
\* Request i of `inflight` is answered with success in this step.
Answered(i) == i \in 1..Len(inflight) /\ RespondOk(i)
\* A request to set the session complete is waiting in q with its callbacks attached.
CompleteIssued(q) ==
    \E j \in 1..Len(q) :
        q[j].kind = "update_session" /\ q[j].status = "complete" /\ q[j].cb = "attached"

\* C1: while the wizard is open on a session it was just opened on (SpecOpen
\* has no wizard operation other than open and close), the done-set is the
\* set of step types of the session's steps, and the displayed step is the
\* first step of the canonical order whose type is not done, or the first
\* step when all nine types are done.
C1_OpenAtFirstPending ==
    wizardSession.open =>
        /\ doneTypes = {wizardSession.steps[i].step_type : i \in 1..Len(wizardSession.steps)}
        /\ IF AllTypesDone
           THEN currentIdx = 0
           ELSE /\ StepAt(currentIdx) \notin doneTypes
                /\ \A j \in 0..(currentIdx - 1) : StepAt(j) \in doneTypes

\* The wizard was opened on a session with a step of every type: it shows the first step.
C1_Witness ==
    /\ wizardSession.open
    /\ Len(wizardSession.steps) = Len(WIZARD_STEP_ORDER)
    /\ AllTypesDone
    /\ currentIdx = 0

\* C2: a wizard opened on a session whose steps are exactly one temperature
\* step and one flow_rate step displays volumetric_speed (index 1), the first
\* type of the canonical order that is not done.
C2_ResumeAtVolumetricSpeed ==
    (/\ wizardSession.open
     /\ Len(wizardSession.steps) = 2
     /\ StepTypesOf(wizardSession.steps) = {"temperature", "flow_rate"})
        => /\ currentIdx = 1
           /\ currentStepType = "volumetric_speed"

C2_Witness ==
    /\ wizardSession.open
    /\ Len(wizardSession.steps) = 2
    /\ StepTypesOf(wizardSession.steps) = {"temperature", "flow_rate"}
    /\ doneTypes = {"temperature", "flow_rate"}
    /\ currentIdx # 0

\* C2 (as stated): a wizard opened on a session whose steps are exactly one
\* temperature step and one flow_rate step displays pressure_advance.
C2_ResumeAtPressureAdvance ==
    (/\ wizardSession.open
     /\ Len(wizardSession.steps) = 2
     /\ StepTypesOf(wizardSession.steps) = {"temperature", "flow_rate"})
        => currentStepType = "pressure_advance"

\* C3 (as stated): no persisted Step Result is marked skipped and also has a
\* non-empty selected_values.
C3_NoSkippedWithSelectedValues ==
    \A i \in 1..Len(steps) : ~(IsSkipped(steps[i]) /\ NonEmpty(steps[i].selected_values))

\* C4: whenever the session's status becomes complete, the request answered
\* in that step is a session update issued by Save on the last wizard step, by
\* the confirmed skip-to-finish, or by the session edit form.
C4_CompleteOnlyByFinishOrForm ==
    [][(status # "complete" /\ status' = "complete") =>
          \E i \in 1..Len(inflight) :
              /\ Answered(i)
              /\ inflight[i].kind = "update_session"
              /\ inflight[i].origin \in {"save_finish", "skip_finish", "form"}]_vars

\* The session became complete although the wizard never left the step it
\* opened on and no step was created: the session edit form completed it.
C4_Witness ==
    /\ status = "complete"
    /\ navs = 0
    /\ created = 0

\* C4 (as stated): whenever the session's status becomes complete, the request
\* answered in that step was issued by Save on the last wizard step or by the
\* confirmed skip-to-finish.
C4_CompleteOnlyByFinish ==
    [][(status # "complete" /\ status' = "complete") =>
          \E i \in 1..Len(inflight) :
              /\ Answered(i)
              /\ inflight[i].kind = "update_session"
              /\ inflight[i].origin \in {"save_finish", "skip_finish"}]_vars

\* C5: a request issued by Save & Continue is a create whose step_type is the
\* displayed step and whose outputs and selected_values both equal the
\* form's result (null when the form has none); when it succeeds the backend
\* appends exactly that step and changes no existing step.
C5_SaveCreatesStepFromForm ==
    [][/\ (Len(inflight') = Len(inflight) + 1 /\ LastOf(inflight').origin = "save") =>
            /\ LastOf(inflight').kind = "create_step"
            /\ LastOf(inflight').step.step_type = StepAt(currentIdx)
            /\ LastOf(inflight').step.outputs = LastOf(inflight').step.selected_values
            /\ LastOf(inflight').step.outputs =
                   (IF form.result.tag = "map" THEN form.result ELSE Null)
       /\ \A i \in 1..Len(inflight) :
            (Answered(i) /\ inflight[i].origin = "save") =>
                /\ Len(steps') = Len(steps) + 1
                /\ steps'[Len(steps')] = inflight[i].step
                /\ \A k \in 1..Len(steps) : steps'[k] = steps[k]]_vars

\* A step saved from a form with a typed result is persisted.
C5_Witness ==
    /\ created >= 1
    /\ ~IsSkipped(LastOf(steps))
    /\ NonEmpty(LastOf(steps).outputs)
    /\ LastOf(steps).outputs = LastOf(steps).selected_values

C7_NoRequestWhileLoading ==
    [][(wizardSession.open /\ isLoading) => Len(inflight') <= Len(inflight)]_vars

\* C8: in a step in which a request fails, the displayed step, the done-set,
\* the session's status and steps are unchanged, no request is issued and
\* completion is not signalled.
C8_FailureChangesNothing ==
    [][(signal' = "error") =>
          /\ currentIdx' = currentIdx
          /\ doneTypes' = doneTypes
          /\ status' = status
          /\ steps' = steps
          /\ wizardSession' = wizardSession
          /\ \E i \in 1..Len(inflight) : inflight' = RemoveAt(inflight, i)]_vars

\* The create request of a wizard that never left the step it opened on has
\* failed: nothing was created and the wizard is still open.
C8_Witness ==
    /\ signal = "error"
    /\ wizardSession.open
    /\ inflight = <<>>
    /\ navs = 0
    /\ created = 0

\* C9 (as stated): a request issued by skip-as-not-applicable creates a step
\* of the displayed type with outputs {_skipped: true}, selected_values null
\* and inputs null; when it succeeds while the wizard that issued it is
\* mounted, the type is in the done-set and the wizard displays the next step
\* (or a session update to complete is issued if the step was the last).
C9_SkipAsNotApplicable ==
    [][/\ (Len(inflight') = Len(inflight) + 1 /\ LastOf(inflight').origin = "skipNA") =>
            /\ LastOf(inflight').kind = "create_step"
            /\ LastOf(inflight').step.step_type = StepAt(currentIdx)
            /\ LastOf(inflight').step.outputs = Map({<<"_skipped", "true">>})
            /\ LastOf(inflight').step.selected_values = Null
            /\ LastOf(inflight').step.inputs = Null
       /\ \A i \in 1..Len(inflight) :
            (Answered(i) /\ inflight[i].origin = "skipNA" /\ inflight[i].cb # "unmounted") =>
                /\ steps' = Append(steps, inflight[i].step)
                /\ inflight[i].step.step_type \in doneTypes'
                /\ IF inflight[i].idx = LastIdx
                   THEN CompleteIssued(inflight')
                   ELSE currentIdx' = inflight[i].idx + 1]_vars

\* C10 (as stated): every type in the open wizard's done-set has a persisted
\* step that is skipped or has a non-empty selected_values.
C10_DoneMeansSkippedOrSelected ==
    wizardSession.open =>
        \A t \in doneTypes :
            \E i \in 1..Len(steps) :
                /\ steps[i].step_type = t
                /\ (IsSkipped(steps[i]) \/ NonEmpty(steps[i].selected_values))

\* A form in which no field has a value.
FormBlank(f) ==
    /\ \A p \in f.inputs.kv : p[2] = "null"
    /\ \A p \in f.result.kv : p[2] = "null"
    /\ f.notes \in {"undef", "null"}
    /\ f.confidence \in {"undef", "null"}

\* C11: Skip on a step that is not the last one issues no request, leaves
\* the done-set, the session's status and steps and the list unchanged,
\* displays the next step and keeps the values of the form it left in the cache.
C11_SkipPersistsNothing ==
    [][(handleSkip /\ currentIdx # LastIdx) =>
          /\ inflight' = inflight
          /\ doneTypes' = doneTypes
          /\ status' = status
          /\ steps' = steps
          /\ view' = view
          /\ currentIdx' = currentIdx + 1
          /\ savedValues'[StepAt(currentIdx)] = [cached |-> TRUE, v |-> form]]_vars

\* An edited step was left without a save: its values are in the cache only.
C11_Witness ==
    /\ wizardSession.open
    /\ edits = 1
    /\ navs = 1
    /\ currentIdx = 1
    /\ savedValues["temperature"].cached
    /\ NonEmpty(savedValues["temperature"].v.result)
    /\ steps = <<>>
    /\ inflight = <<>>

\* C12: (a) Skip on the last step only shows the confirmation; (b) a session
\* update with status complete that does not come from a save is issued only
\* in the step that confirms the dialog, and creates no step when it succeeds;
\* (c) declining the dialog changes neither the session, the requests, the
\* done-set nor the displayed step.
C12_SkipFinishNeedsConfirmation ==
    [][/\ (handleSkip /\ currentIdx = LastIdx) =>
            /\ confirmOpen'
            /\ inflight' = inflight
            /\ status' = status
            /\ steps' = steps
            /\ doneTypes' = doneTypes
            /\ currentIdx' = currentIdx
       /\ (Len(inflight') = Len(inflight) + 1 /\ LastOf(inflight').origin = "skip_finish") =>
            /\ confirmOpen
            /\ ~confirmOpen'
            /\ LastOf(inflight').kind = "update_session"
            /\ LastOf(inflight').status = "complete"
            /\ steps' = steps
            /\ status' = status
       /\ \A i \in 1..Len(inflight) :
            (Answered(i) /\ inflight[i].origin = "skip_finish") => steps' = steps
       /\ (confirmOpen /\ ~confirmOpen' /\ Len(inflight') = Len(inflight)) =>
            /\ inflight' = inflight
            /\ status' = status
            /\ steps' = steps
            /\ doneTypes' = doneTypes
            /\ currentIdx' = currentIdx
            /\ wizardSession' = wizardSession]_vars

\* The confirmed skip-to-finish completed a session in which no step was ever created.
C12_Witness ==
    /\ status = "complete"
    /\ signal = "complete"
    /\ created = 0
    /\ steps = <<>>

\* C13: in the step that closes the wizard without completing it, no request
\* is issued (the requests in flight are the same, with their callbacks
\* detached), and the session's status and steps are unchanged.
C13_CloseIssuesNothing ==
    [][(wizardSession.open /\ ~wizardSession'.open /\ signal' # "complete") =>
          /\ Len(inflight') = Len(inflight)
          /\ \A j \in 1..Len(inflight) : inflight'[j] = [inflight[j] EXCEPT !.cb = "unmounted"]
          /\ status' = status
          /\ steps' = steps]_vars

\* The wizard was closed after an edit that was never saved: no step exists,
\* no request is in flight and the session is still in progress.
C13_Witness ==
    /\ ~wizardSession.open
    /\ refetching
    /\ edits = 1
    /\ created = 0
    /\ inflight = <<>>
    /\ steps = <<>>
    /\ status = "in_progress"

\* C14 (as stated): after every navigation of the open wizard to another step,
\* if the cache holds for the step arrived at values that a navigation away
\* from that step stored (an entry that differs from what the open seeded),
\* the form holds exactly those values; if the cache has no entry for the step
\* arrived at, no field of the form has a value.
C14_NavigateRoundTrip ==
    [][(wizardSession.open /\ wizardSession'.open /\ currentIdx' # currentIdx) =>
          IF ~savedValues'[StepAt(currentIdx')].cached
          THEN FormBlank(form')
          ELSE (savedValues'[StepAt(currentIdx')] #
                    SeedSavedValues(wizardSession.steps)[StepAt(currentIdx')])
                   => form' = SetFieldsValue(EmptyForm, savedValues'[StepAt(currentIdx')].v)]_vars

\* Session a of the list has a step of type t with non-empty selected_values.
HasValuesFor(a, t) ==
    \E i \in 1..Len(sessions[a].steps) :
        /\ sessions[a].steps[i].step_type = t
        /\ NonEmpty(sessions[a].steps[i].selected_values)

\* The step the summary shows for type t.
ChosenStep(t) == sessions[summary[t].s].steps[summary[t].i]

\* C15: when two sessions of the list both have a step of type t with
\* non-empty selected_values, the summary's step for t is a step of type t
\* with non-empty selected_values that is not in the later-listed (older) of
\* the two: it comes from the session listed first among those that have one.
C15_NewerSessionWins ==
    \A t \in CalibrationStepType : \A a \in 1..Len(sessions), b \in 1..Len(sessions) :
        (a < b /\ HasValuesFor(a, t) /\ HasValuesFor(b, t)) =>
            /\ summary[t].chosen
            /\ summary[t].s <= a
            /\ HasValuesFor(summary[t].s, t)
            /\ \A c \in 1..(summary[t].s - 1) : ~HasValuesFor(c, t)
            /\ ChosenStep(t).step_type = t
            /\ NonEmpty(ChosenStep(t).selected_values)

\* Both sessions of the list have a temperature step with values, the older
\* one's recorded first, and the summary shows the step of the newer session.
C15_Witness ==
    /\ Len(sessions) = 2
    /\ HasValuesFor(1, "temperature")
    /\ HasValuesFor(2, "temperature")
    /\ summary["temperature"] = Choice(1, 1)
    /\ sessions[2].steps[1].recorded_at < sessions[1].steps[1].recorded_at

\* C16 (as stated): the step the summary shows for a type was recorded no
\* earlier than any step of that type with non-empty selected_values in any
\* session of the filament.
C16_LatestRecordedWins ==
    \A t \in CalibrationStepType :
        summary[t].chosen =>
            \A h \in StepsRecorded(sessions) :
                (/\ sessions[h[1]].steps[h[2]].step_type = t
                 /\ NonEmpty(sessions[h[1]].steps[h[2]].selected_values))
                    => sessions[h[1]].steps[h[2]].recorded_at <= ChosenStep(t).recorded_at

\* C17 (as stated): the step the summary computed from the listed session
\* shows for a type has non-empty selected_values and is not a skipped step.
C17_SkippedNeverChosen ==
    \A t \in CalibrationStepType :
        LET c == latestByType(<<view>>)[t]
        IN  c.chosen => /\ NonEmpty(view.steps[c.i].selected_values)
                        /\ ~IsSkipped(view.steps[c.i])

\* The output the formula of the displayed step computes is in result.
HasComputed(t, f) == <<OutKey(t), "c1">> \in f.result.kv

\* C18: on a step with an autoCompute formula, when the inputs of the form
\* change, the computed output is merged into result if every input the
\* formula reads then holds a number (and, for pressure_advance, the method is
\* tower), and otherwise result is exactly what it was; and whenever result
\* comes to hold the computed output, which neither it nor the cache entry
\* that a navigation restored held before, every input the formula reads
\* holds a number.
C18_FormulaNeedsAllInputs ==
    [][(wizardSession.open /\ wizardSession'.open /\ HasAutoCompute(StepAt(currentIdx'))) =>
          /\ (currentIdx' = currentIdx /\ form'.inputs # form.inputs) =>
                IF /\ InputsComplete(currentStepType, form')
                   /\ ~(currentStepType = "pressure_advance" /\ stepContent.paMethod = "pattern")
                THEN form'.result = Put(Coalesce(form.result, EmptyMap),
                                        OutKey(currentStepType), "c1")
                ELSE form'.result = form.result
          /\ (/\ HasComputed(StepAt(currentIdx'), form')
              /\ IF currentIdx' = currentIdx THEN ~HasComputed(currentStepType, form)
                 ELSE ~HasComputed(StepAt(currentIdx'), savedValues'[StepAt(currentIdx')].v)) =>
                InputsComplete(StepAt(currentIdx'), form')]_vars

\* On volumetric_speed the output was computed and an input was cleared
\* afterwards: the inputs are incomplete and result still holds the computed output.
C18_Witness ==
    /\ wizardSession.open
    /\ currentStepType = "volumetric_speed"
    /\ <<"measured_height", "null">> \in form.inputs.kv
    /\ ~InputsComplete(currentStepType, form)
    /\ HasComputed(currentStepType, form)

\* C19: while the pressure_advance step is displayed with method pattern,
\* result never holds the output computed by the tower formula, and result
\* changes only when the user sets the output field.
C19_PatternNeverComputes ==
    [][(/\ wizardSession'.open
        /\ StepAt(currentIdx') = "pressure_advance"
        /\ stepContent'.paMethod = "pattern") =>
          /\ ~HasComputed("pressure_advance", form')
          /\ (/\ wizardSession.open
              /\ currentIdx = currentIdx'
              /\ stepContent.paMethod = "pattern"
              /\ form'.result # form.result) =>
                \E v \in TypedValues : form' = OutputChanged(form, "pressure_advance", v)]_vars

\* Pattern mode with both inputs of the tower formula still set from the
\* tower entry, and a value the user entered in the output field.
C19_Witness ==
    /\ wizardSession.open
    /\ currentStepType = "pressure_advance"
    /\ stepContent.paMethod = "pattern"
    /\ InputsComplete("pressure_advance", form)
    /\ form.result = Map({<<"pressure_advance", "v1">>})

\* C20: in the step in which the method of the flow-ratio calculator changes
\* on the displayed flow_rate step, the method is the selected one, the YOLO
\* ratio and the ratio of the first pass are 1.0, the ratio of the second pass
\* and the three modifiers are null, the phase is idle, and the form is unchanged.
C20_MethodSelectionResets ==
    [][(/\ wizardSession.open /\ wizardSession'.open
        /\ currentIdx' = currentIdx
        /\ stepContent'.flowCalcMethod # stepContent.flowCalcMethod) =>
          /\ currentStepType = "flow_rate"
          /\ \E val \in {"yolo", "legacy"} :
                /\ handleFlowMethodChange(val)
                /\ stepContent'.flowCalcMethod = val
          /\ stepContent'.flowCalcPhase = "idle"
          /\ stepContent'.yoloFlowRatioOld = Num(DefaultFlowRatio)
          /\ stepContent'.pass1FlowRatio = Num(DefaultFlowRatio)
          /\ stepContent'.yoloModifier = NullNum
          /\ stepContent'.pass1Modifier = NullNum
          /\ stepContent'.pass2FlowRatio = NullNum
          /\ stepContent'.pass2Modifier = NullNum
          /\ form' = form]_vars

\* The method was selected back to YOLO after the legacy calculator had
\* applied the ratio of its second pass (1.0 corrected twice by 5 percent, a
\* ratio the YOLO calculator cannot yield): every field has its default.
C20_Witness ==
    /\ wizardSession.open
    /\ currentStepType = "flow_rate"
    /\ stepContent = InitialStepContent
    /\ <<"flow_ratio", "110250">> \in form.result.kv

\* C21: in the flow-ratio calculator, a step that ends the second pass, or that
\* leaves a pass and changes the form, is Apply. It happens only with a
\* non-null final result: the YOLO result under method YOLO, the result of
\* the second pass under method Legacy. It writes that result into
\* result.flow_ratio, keeps every other key of result and every other field
\* of the form, and leaves the calculator idle with every field at its
\* default.
C21_ApplyWritesFlowRatio ==
    [][(/\ FlowCalcShown
        /\ wizardSession'.open
        /\ currentIdx' = currentIdx
        /\ stepContent.flowCalcPhase # "idle"
        /\ stepContent'.flowCalcPhase = "idle"
        /\ (form' # form \/ stepContent.flowCalcPhase = "pass2")) =>
       \E e \in FloatError :
       LET final == IF stepContent.flowCalcMethod = "yolo"
                    THEN yoloResult(stepContent, e) ELSE pass2Result(stepContent, e)
       IN  /\ IsNum(final)
           /\ form'.result.tag = "map"
           /\ <<"flow_ratio", ToString(ValueOf(final))>> \in form'.result.kv
           /\ \A p \in form'.result.kv : p[1] = "flow_ratio" => p[2] = ToString(ValueOf(final))
           /\ {p \in form'.result.kv : p[1] # "flow_ratio"}
                 = {p \in form.result.kv : p[1] # "flow_ratio"}
           /\ form'.inputs = form.inputs
           /\ form'.notes = form.notes
           /\ form'.confidence = form.confidence
           /\ stepContent' = [InitialStepContent
                                 EXCEPT !.flowCalcMethod = stepContent.flowCalcMethod]]_vars

\* The result of the second pass was applied to the form of a step that had
\* been marked as not applicable: the marker is kept beside the new ratio.
C21_Witness ==
    /\ FlowCalcShown
    /\ stepContent = [InitialStepContent EXCEPT !.flowCalcMethod = "legacy"]
    /\ form.result = Map({<<"_skipped", "true">>, <<"flow_ratio", "110250">>})

\* C22: the calculator goes from the first pass to the second only under
\* method Legacy with a non-null result of the first pass; on arrival the
\* flow ratio of the second pass is that result and the modifier of the
\* second pass is null.
C22_NextSeedsSecondPass ==
    [][(/\ FlowCalcShown
        /\ wizardSession'.open
        /\ currentIdx' = currentIdx
        /\ stepContent.flowCalcPhase = "pass1"
        /\ stepContent'.flowCalcPhase = "pass2") =>
       /\ stepContent.flowCalcMethod = "legacy"
       /\ \E e \in FloatError :
             /\ IsNum(pass1Result(stepContent, e))
             /\ stepContent' = [stepContent EXCEPT !.flowCalcPhase = "pass2",
                                                   !.pass2FlowRatio = pass1Result(stepContent, e)]
       /\ stepContent'.pass2Modifier = NullNum]_vars

\* The second pass was entered from a first pass with a typed ratio of 0.98
\* and a modifier of 5 percent: it starts from 1.029 with no modifier.
C22_Witness ==
    /\ FlowCalcShown
    /\ stepContent.flowCalcPhase = "pass2"
    /\ stepContent.pass1FlowRatio = Num(98000)
    /\ stepContent.pass1Modifier = Num(50)
    /\ stepContent.pass2FlowRatio = Num(102900)
    /\ stepContent.pass2Modifier = NullNum

\* What StepContent holds beyond its initial values belongs to the displayed
\* step: the calculator is in use only on flow_rate, the artifact speeds are
\* listed only on vfa, the pattern method is selected only on pressure_advance.
StepStateBelongs(idx, sc) ==
    /\ StepAt(idx) # "flow_rate" =>
          resetFlowCalcState([sc EXCEPT !.flowCalcMethod = "yolo"]) = sc
    /\ StepAt(idx) # "vfa" => sc.artifactSpeeds = <<>> /\ sc.newArtifactSpeed = NullNum
    /\ StepAt(idx) # "pressure_advance" => sc.paMethod = "tower"

Holds(m, k, v) == m.tag = "map" /\ \A p \in m.kv : p[1] = k <=> p = <<k, v>>

\* The list of artifact speeds of the displayed vfa step changes in this step
\* (an add or a remove).
ArtifactSpeedsChange ==
    /\ VfaShown
    /\ wizardSession'.open
    /\ currentIdx' = currentIdx
    /\ stepContent'.artifactSpeeds # stepContent.artifactSpeeds

\* C24: after an add or a remove on the list of artifact speeds,
\* result.min_avoidance_speed is the smallest and result.max_avoidance_speed
\* the largest speed of the new list, both are null when the new list is
\* empty, and every other key of result and every other field of the form is
\* as before.
C24_AvoidanceSpeedsFollowList ==
    [][ArtifactSpeedsChange =>
       LET L == stepContent'.artifactSpeeds
           S == {L[i] : i \in 1..Len(L)}
           others(m) == {p \in m.kv : p[1] \notin {"min_avoidance_speed", "max_avoidance_speed"}}
       IN  /\ S = {} => /\ Holds(form'.result, "min_avoidance_speed", "null")
                         /\ Holds(form'.result, "max_avoidance_speed", "null")
           /\ \A lo \in S : (\A x \in S : lo <= x) =>
                  Holds(form'.result, "min_avoidance_speed", ToString(lo))
           /\ \A hi \in S : (\A x \in S : hi >= x) =>
                  Holds(form'.result, "max_avoidance_speed", ToString(hi))
           /\ others(form'.result) = others(form.result)
           /\ form'.inputs = form.inputs
           /\ form'.notes = form.notes
           /\ form'.confidence = form.confidence]_vars

\* Two different speeds are listed on a vfa step that had been marked as not
\* applicable: result holds the smaller and the larger one beside the marker.
C24_Witness ==
    /\ VfaShown
    /\ stepContent.artifactSpeeds = <<100, 150>>
    /\ form.result = Map({<<"_skipped", "true">>, <<"min_avoidance_speed", "100">>,
                          <<"max_avoidance_speed", "150">>})

\* The number of positions of the list L that hold x.
CountOf(L, x) == Cardinality({i \in 1..Len(L) : L[i] = x})

IsAscending(L) == \A i \in 1..Len(L), j \in 1..Len(L) : i < j => L[i] <= L[j]

\* L2 is L1 with x added once.
AddedOnce(L1, L2, x) ==
    /\ Len(L2) = Len(L1) + 1
    /\ \A y \in {L2[i] : i \in 1..Len(L2)} :
          CountOf(L2, y) = CountOf(L1, y) + (IF y = x THEN 1 ELSE 0)

\* L2 is L1 without the element at position i, the others in their order.
RemovedAt(L1, L2, i) ==
    /\ i \in 1..Len(L1)
    /\ Len(L2) = Len(L1) - 1
    /\ \A j \in 1..Len(L2) : L2[j] = IF j < i THEN L1[j] ELSE L1[j + 1]

\* C25: the list of artifact speeds is in ascending order in every state. A
\* step that changes it is an add, possible only with a pending speed that is
\* a number, which puts that speed into the list once more than before and
\* clears the pending speed, or a remove, which takes out the element of one
\* position, keeps the others in their order and keeps the pending speed.
C25_ArtifactSpeedsSorted ==
    [][/\ IsAscending(stepContent'.artifactSpeeds)
       /\ ArtifactSpeedsChange =>
            LET L1 == stepContent.artifactSpeeds
                L2 == stepContent'.artifactSpeeds
            IN  \/ /\ IsNum(stepContent.newArtifactSpeed)
                   /\ AddedOnce(L1, L2, ValueOf(stepContent.newArtifactSpeed))
                   /\ stepContent'.newArtifactSpeed = NullNum
                \/ /\ \E i \in 1..Len(L1) : RemovedAt(L1, L2, i)
                   /\ stepContent'.newArtifactSpeed = stepContent.newArtifactSpeed]_vars

\* A speed was added that the list already held, beside a larger one: it is
\* listed twice, before the larger one, and the pending speed is cleared.
C25_Witness ==
    /\ VfaShown
    /\ stepContent.artifactSpeeds = <<100, 100, 150>>
    /\ stepContent.newArtifactSpeed = NullNum

\* The button of row r is armed: it shows "Sure?" and the timer of its
\* arming is still scheduled.
Armed(r) ==
    /\ deleteButtons[r].mounted
    /\ deleteButtons[r].confirming
    /\ Timer(r, deleteButtons[r].timerRef) \in timers

\* C26: a delete request is issued only for a row whose button is armed, by
\* a click that disarms the button; a step that arms a button (the click on a
\* disarmed button, also after its timer fired) issues no request.
C26_DeleteNeedsArmedButton ==
    [][/\ deleteRequests' # deleteRequests /\ Len(deleteRequests') > Len(deleteRequests) =>
            \E r \in Rows :
                /\ Armed(r)
                /\ deleteRequests' = Append(deleteRequests, Request(r))
                /\ ~deleteButtons'[r].confirming
       /\ \A r \in Rows :
            (~deleteButtons[r].confirming /\ deleteButtons'[r].confirming) =>
                deleteRequests' = deleteRequests]_vars

\* The button of the session was armed, its timer fired, it was armed again
\* and confirmed: one delete request, for the session, is waiting.
C26_Witness ==
    /\ deleteButtons["session"] = [mounted |-> TRUE, confirming |-> FALSE, timerRef |-> 2]
    /\ timerCount = 2
    /\ timers = {}
    /\ deleteRequests = <<Request("session")>>

\* Every scheduled timer is the one its button keeps in timerRef, and that
\* button is mounted and shows "Sure?".
NoStaleTimer ==
    \A t \in timers :
        /\ deleteButtons[t[1]].mounted
        /\ deleteButtons[t[1]].confirming
        /\ deleteButtons[t[1]].timerRef = t[2]

\* C27: a button that shows "Sure?" eventually shows it no longer (when it is
\* not confirmed, because its timer fires), and no timer stays scheduled
\* beyond the arming it belongs to: a timer that fires disarms the arming
\* that scheduled it.
C27_ArmedButtonDisarms ==
    /\ []NoStaleTimer
    /\ \A r \in Rows : deleteButtons[r].confirming ~> ~deleteButtons[r].confirming

\* The button of the session was armed and disarmed by its timer; the button
\* of the step was armed, confirmed and armed again, and only the timer of
\* its second arming is scheduled.
C27_Witness ==
    /\ deleteButtons["session"] = [mounted |-> TRUE, confirming |-> FALSE, timerRef |-> 1]
    /\ deleteButtons["step"] = [mounted |-> TRUE, confirming |-> TRUE, timerRef |-> 3]
    /\ timers = {Timer("step", 3)}
    /\ deleteRequests = <<Request("step")>>

\* Request i of `inflight` is the create of handleStartWizard with its
\* callbacks attached, and it is answered with success in this step.
StartAnswered(i) ==
    /\ i \in 1..Len(inflight)
    /\ inflight[i].kind = "create_session"
    /\ inflight[i].cb = "attached"
    /\ RespondOk(i)

\* C28: a session comes into being with status in_progress; the wizard opens
\* either in the step in which the create request of Start is answered with
\* success, on the session just created, or by Resume, and then the session
\* exists with status in_progress, no request is issued and the backend is
\* left as it is.
C28_StartCreatesResumeReuses ==
    [][/\ (status = "absent" /\ status' # "absent") => status' = "in_progress"
       /\ (~wizardSession.open /\ wizardSession'.open) =>
            \/ /\ \E i \in 1..MaxInflight : StartAnswered(i)
               /\ status' = "in_progress"
               /\ wizardSession'.steps = steps'
            \/ /\ status = "in_progress"
               /\ view.status = "in_progress"
               /\ wizardSession'.steps = view.steps
               /\ inflight' = inflight
               /\ status' = status
               /\ steps' = steps]_vars

\* C29: every flow_ratio persisted in the outputs or the selected_values of a
\* Step Result is null, a value typed into the output field (which the field
\* keeps within its bounds) or a number between the min and the max of the
\* field, 0.5 and 1.5.
C29_PersistedWithinBounds ==
    \A i \in 1..Len(steps) :
        \A m \in {steps[i].outputs, steps[i].selected_values} :
            \A p \in m.kv :
                p[1] = "flow_ratio" => p[2] \in {"v1", "null"} \cup FlowRatiosWithinBounds

\* All three inputs of the volumetric_speed step are numbers.
VolumetricInputsValid(inputs) == \A k \in VolumetricKeys : inputs[k] # NullNum

\* start_speed + measured_height * step_size over the reals, in units of 0.01.
\* The inputs are whole numbers of 0.1, so the sum is a whole number of 0.01
\* and rounding it to 2 decimals leaves it as it is.
RoundedSum(inputs) ==
    10 * inputs["start_speed"][1] + inputs["measured_height"][1] * inputs["step_size"][1]

\* C30: whenever an input of the volumetric_speed step changes and all three
\* inputs are then numbers, the max_volumetric_speed the form holds afterwards
\* is start_speed + measured_height * step_size rounded to 2 decimals.
C30_MaxVolumetricSpeed ==
    [][(volumetricInputs' # volumetricInputs /\ VolumetricInputsValid(volumetricInputs'))
         => volumetricResult' = Num(RoundedSum(volumetricInputs'))]_vars

\* 0.3 + 0.3 * 0.3 was computed: the form holds 0.39.
C30_Witness ==
    /\ volumetricInputs = [k \in VolumetricKeys |-> Num(3)]
    /\ volumetricResult = Num(39)

\* C31: in every state of the calculator and whatever the rounding error of
\* the double, the YOLO result is the sum of the current flow ratio and the
\* modifier when both are set (the sum of two numbers of 5 decimals has 5
\* decimals, so rounding leaves it as it is), and null when either is missing.
C31_YoloResultIsSum ==
    \A e \in FloatError :
        yoloResult(stepContent, e) =
            IF IsNum(stepContent.yoloFlowRatioOld) /\ IsNum(stepContent.yoloModifier)
            THEN Num(ValueOf(stepContent.yoloFlowRatioOld) + ValueOf(stepContent.yoloModifier))
            ELSE NullNum

\* The YOLO pass shows the ratio 1.0 and the modifier 0.05: the result is 1.05.
C31_Witness ==
    /\ FlowCalcShown
    /\ stepContent.flowCalcMethod = "yolo"
    /\ stepContent.flowCalcPhase = "pass1"
    /\ stepContent.yoloFlowRatioOld = Num(100000)
    /\ stepContent.yoloModifier = Num(5000)
    /\ yoloResult(stepContent, 0) = Num(105000)

\* ratio * (100 + modifier) / 100 over the reals, rounded to 5 decimals (a
\* half is rounded up), or null; the modifier is counted in units of 0.1 percent.
RoundedPass(ratio, modifier) ==
    IF IsNum(ratio) /\ IsNum(modifier)
    THEN Num((ValueOf(ratio) * (1000 + ValueOf(modifier)) + 500) \div 1000)
    ELSE NullNum

\* C32: in every state of the calculator and whatever the rounding error of
\* the double, the result of each pass of the Legacy method is
\* ratio * (100 + modifier) / 100 rounded to 5 decimals when the ratio and the
\* modifier of the pass are both set, and null when either is missing.
C32_PassResultIsRounded ==
    \A e \in FloatError :
        /\ pass1Result(stepContent, e)
              = RoundedPass(stepContent.pass1FlowRatio, stepContent.pass1Modifier)
        /\ pass2Result(stepContent, e)
              = RoundedPass(stepContent.pass2FlowRatio, stepContent.pass2Modifier)

\* C33: in every reachable state the index of the displayed step is one of
\* 0..8, whichever of Back, Skip, Save & Continue, the sidebar and the
\* callbacks of the save requests moved it, in whatever order.
C33_CurrentIdxInRange == currentIdx \in Indices

\* The first step was saved, the sidebar moved to tolerance before the answer
\* arrived, and the callback of the save then moved to the step after the
\* saved one: tolerance is cached although it was never saved or left by a click.
C33_Witness ==
    /\ wizardSession.open
    /\ currentIdx = 1
    /\ navs = 1
    /\ created = 1
    /\ doneTypes = {"temperature"}
    /\ savedValues["tolerance"].cached

\* C34: in every reachable state, a calculator in phase pass2 has method
\* Legacy: under method YOLO the phase is idle or pass1.
C34_SecondPassIsLegacy ==
    stepContent.flowCalcPhase = "pass2" => stepContent.flowCalcMethod = "legacy"

\* The second pass of the Legacy method is displayed, with a modifier typed.
C34_Witness ==
    /\ FlowCalcShown
    /\ stepContent.flowCalcPhase = "pass2"
    /\ stepContent.flowCalcMethod = "legacy"
    /\ IsNum(stepContent.pass2Modifier)

\* StepContent with the fields of the calculator at their defaults, the
\* method and what is not of the calculator as they are.
CalcDefaults ==
    [InitialStepContent EXCEPT !.flowCalcMethod = stepContent.flowCalcMethod,
                               !.paMethod = stepContent.paMethod,
                               !.artifactSpeeds = stepContent.artifactSpeeds,
                               !.newArtifactSpeed = stepContent.newArtifactSpeed]

LastOfType(ss, t) ==
    ss[CHOOSE i \in 1..Len(ss) :
          /\ ss[i].step_type = t
          /\ \A j \in 1..Len(ss) : ss[j].step_type = t => j <= i]

\* C35: when the wizard opens, the cache holds for every step type with a
\* persisted step the inputs of the last such step of the session's list (an
\* empty mapping if it has none) and, as result, the selected_values of that
\* step if present, else its outputs, else an empty mapping.
C35_CacheSeededFromLastStep ==
    [][(~wizardSession.open /\ wizardSession'.open) =>
         \A t \in StepTypesOf(wizardSession'.steps) :
            LET last == LastOfType(wizardSession'.steps, t)
            IN  /\ savedValues'[t].cached
                /\ savedValues'[t].v.inputs =
                      IF last.inputs.tag = "map" THEN last.inputs ELSE EmptyMap
                /\ savedValues'[t].v.result =
                      IF last.selected_values.tag = "map" THEN last.selected_values
                      ELSE IF last.outputs.tag = "map" THEN last.outputs
                      ELSE EmptyMap]_vars

\* The wizard is open on a session with two temperature steps: the first has
\* selected_values, the last has inputs and outputs only, and the cache holds
\* the inputs and the outputs of the last.
C35_Witness ==
    /\ wizardSession.open
    /\ Len(wizardSession.steps) = 2
    /\ wizardSession.steps[1].step_type = "temperature"
    /\ wizardSession.steps[1].selected_values = Map({<<"temperature", "v2">>})
    /\ wizardSession.steps[2].step_type = "temperature"
    /\ wizardSession.steps[2].selected_values = Null
    /\ savedValues["temperature"].v.inputs = Map({<<"start_temp", "v1">>})
    /\ savedValues["temperature"].v.result = Map({<<"temperature", "v1">>})

\* C37: while the wizard stays open, whenever the cache changes, whatever
\* moved the wizard (sidebar, Back, Skip or the callback of a save answered
\* after a navigation), the one entry written is that of the step displayed
\* before the move, and it is written with the values the form held then.
C37_SnapshotUnderDisplayedStep ==
    [][(wizardSession.open /\ wizardSession'.open) =>
         \A t \in CalibrationStepType :
            savedValues'[t] # savedValues[t] =>
               t = currentStepType /\ savedValues'[t] = Entry(form)]_vars

\* temperature was saved, the sidebar moved to tolerance before the answer,
\* notes were typed there, and the callback then moved on to volumetric_speed:
\* the notes are cached under tolerance and not under temperature.
C37_Witness ==
    /\ wizardSession.open
    /\ currentIdx = 1
    /\ created = 1
    /\ doneTypes = {"temperature"}
    /\ savedValues["tolerance"].cached
    /\ savedValues["tolerance"].v.notes = "n1"
    /\ savedValues["temperature"].v.notes # "n1"

\* A create-step request of the wizard waits for its answer with its callbacks.
PendingSave(j) ==
    /\ j \in 1..Len(inflight)
    /\ inflight[j].hook = "wizard.createStep"
    /\ inflight[j].cb = "attached"

\* The number of times Save & Continue still has to be pressed before the
\* request that completes the session is issued: the steps from the displayed
\* one to the last, or, while a save waits for its answer, the steps after
\* the one it saved.
SavesNeeded ==
    IF CompleteIssued(inflight) THEN 0
    ELSE IF \E j \in 1..Len(inflight) : PendingSave(j)
         THEN LET j == CHOOSE k \in 1..Len(inflight) : PendingSave(k)
              IN  IF inflight[j].last THEN 0 ELSE LastIdx - inflight[j].idx
         ELSE LastIdx + 1 - currentIdx

\* The Step Results that can still be created within the bound.
SavesLeft == MaxSteps - created - CreatesInFlight(inflight)

\* The wizard is open, the user has made the last of their navigation clicks,
\* and the saves still needed fit into the bound on Step Results.
OnlySavingLeft ==
    /\ wizardSession.open
    /\ navs = MaxNavs
    /\ SavesNeeded <= SavesLeft

HasRecommendedValue(t) ==
    \E h \in StepsRecorded(sessions) :
        /\ sessions[h[1]].steps[h[2]].step_type = t
        /\ vals(t, sessions[h[1]].steps[h[2]]) # {}

\* The summary renders a tile with values for type t.
TileShown(t) == summary[t].chosen /\ vals(t, ChosenStep(t)) # {}

\* C39 (as stated): whenever a step of type t recorded in some session of
\* the filament has a value for a recommended key of t, the summary renders
\* a tile with values for t.
C39_ValueNeverHidden ==
    \A t \in CalibrationStepType : HasRecommendedValue(t) => TileShown(t)

\* The in_progress sessions the backend holds for the filament.
InProgressCount ==
    (IF status = "in_progress" THEN 1 ELSE 0)
    + Cardinality({j \in 1..Len(earlier) : earlier[j] = "in_progress"})

\* C40 (as stated): with Start clicked only while the rendered list holds
\* no in_progress session, and otherwise only Resume, the sidebar, Close and
\* the refetch of the list, the backend never holds two in_progress sessions
\* of the filament.
C40_SingleInProgressSession == InProgressCount <= 1

====
